---- MODULE Spec2Model ----
(***************************************************************************)
(* Model of the TMSL structural validator (src/tmsl_validator.py) and of   *)
(* the deployment handler that is gated by it (server.py,                  *)
(* update_model_using_tmsl).                                               *)
(*                                                                         *)
(* JSON values are tagged records, so that the dynamic typing of the       *)
(* Python code (membership tests, .get, iteration, len on values of any    *)
(* JSON type) can be followed, including the places where it raises.       *)
(* A Python str is a sequence of atomic tokens; substring tests are        *)
(* contiguous-subsequence tests on tokens.                                 *)
(***************************************************************************)
EXTENDS Integers, Sequences, FiniteSets, TLC

VARIABLES
    tmsl_definition,   \* the text handed to the validator / the handler
    result,            \* what validate_tmsl_structure returned (or NoResult)
    pc,                \* position of the running call
    validate_only,     \* argument of update_model_using_tmsl
    access_token,      \* what get_access_token() returned (TRUE: a token)
    connected,         \* server.Connected
    validation_result, \* local of update_model_using_tmsl
    final_tmsl,        \* local of update_model_using_tmsl: how the text was wrapped
    executed,          \* number of server.Execute calls made
    retval,            \* what update_model_using_tmsl returned
    raw,               \* the text handed to the normalizer
    normalized,        \* what the normalizer returned (or NoResult)
    rounds,            \* how often the normalizer's output was handed back to it
    catalog,           \* os.path.exists(rules_file): the rule catalog is on disk
    service,           \* the BPAService object that the calls are made on
    reply,             \* what the last call returned
    previous,          \* what the call before it returned
    cleanup,           \* what the finally block of update_model_using_tmsl did
    descriptors,       \* the rule descriptors of the catalog file
    model_objects,     \* the objects of the model that is analyzed
    calls,             \* the analyze_model_from_tmsl calls under way on bpa_service
    history,           \* which of them wrote the analyzer last, and whether they overlapped
    workflow,          \* the call of create_safe_measure_addition_workflow
    edits              \* a table TMSL and the add_measure_to_table_tmsl calls made on it

\* the variables of the rule engine service
service_vars == <<catalog, service, reply, previous>>

\* the variables of the other units
rules_vars == <<descriptors, model_objects>>
overlap_vars == <<calls, history>>
helper_vars == <<workflow, edits>>
rest_vars == <<cleanup, rules_vars, overlap_vars, helper_vars>>

\* the variables of the normalizer, of the service and of the other units
other_vars == <<raw, normalized, rounds, service_vars, rest_vars>>

vars == <<tmsl_definition, result, pc, validate_only, access_token, connected,
          validation_result, final_tmsl, executed, retval, other_vars>>

-----------------------------------------------------------------------------
(* JSON values as json.loads builds them *)

JNull == [t |-> "null"]
JNum == [t |-> "num"]
JBool(b) == [t |-> "bool", b |-> b]
JStr(s) == [t |-> "str", s |-> s]
JArr(a) == [t |-> "arr", a |-> a]
JObj(o) == [t |-> "obj", o |-> o]

S(tok) == JStr(<<tok>>)
EmptyObj == JObj([k \in {} |-> JNull])

\* Order in which the keys of a dict are visited when it is iterated.
KeyOrder ==
    <<"createOrReplace", "database", "table", "model", "tables", "expressions",
      "name", "mode", "defaultMode", "partitions", "columns", "measures",
      "hierarchies", "annotations", "source", "type", "expression", "kind",
      "entityName", "schemaName", "expressionSource", "dataType", "object",
      "formatString", "description">>

(* Python operations on JSON values *)

\* x in s for two str values: s holds x as a contiguous run.
Contains(hay, needle) ==
    \E i \in 0..(Len(hay) - Len(needle)) :
        \A j \in 1..Len(needle) : hay[i + j] = needle[j]

\* `k in v` is defined for dict, list and str, and raises TypeError otherwise.
CanIn(v) == v.t \in {"obj", "arr", "str"}

In(k, v) ==
    CASE v.t = "obj" -> k \in DOMAIN v.o
      [] v.t = "arr" -> \E i \in 1..Len(v.a) : v.a[i] = S(k)
      [] v.t = "str" -> Contains(v.s, <<k>>)
      [] OTHER -> FALSE

IsObj(v) == v.t = "obj"

\* `for x in v`: the items of a list, the keys of a dict, the characters of a str.
CanIter(v) == v.t \in {"obj", "arr", "str"}

Items(v) ==
    CASE v.t = "arr" -> v.a
      [] v.t = "obj" ->
            LET ks == SelectSeq(KeyOrder, LAMBDA k : k \in DOMAIN v.o)
            IN  [i \in 1..Len(ks) |-> S(ks[i])]
      [] v.t = "str" -> [i \in 1..Len(v.s) |-> S(v.s[i])]
      [] OTHER -> <<>>

\* len(v)
CanLen(v) == v.t \in {"obj", "arr", "str"}

PyLen(v) ==
    CASE v.t = "arr" -> Len(v.a)
      [] v.t = "obj" -> Cardinality(DOMAIN v.o)
      [] v.t = "str" -> Len(v.s)
      [] OTHER -> 0

\* d.get(k, default) on a dict
Get(d, k, default) == IF k \in DOMAIN d.o THEN d.o[k] ELSE default

\* set.add(v) needs a hashable value
Hashable(v) == v.t \notin {"obj", "arr"}

RECURSIVE FoldLeft(_, _, _)
FoldLeft(Op(_, _), acc, s) ==
    IF s = <<>> THEN acc ELSE FoldLeft(Op, Op(acc, Head(s)), Tail(s))

\* repr(v): what str() prints for a value that is not a str
RECURSIVE Repr(_)
Repr(v) ==
    CASE v.t = "str" -> <<"'">> \o v.s \o <<"'">>
      [] v.t = "null" -> <<"None">>
      [] v.t = "num" -> <<"0">>
      [] v.t = "bool" -> IF v.b THEN <<"True">> ELSE <<"False">>
      [] v.t = "arr" ->
            <<"[">> \o FoldLeft(LAMBDA a, x : a \o Repr(x), <<>>, v.a) \o <<"]">>
      [] v.t = "obj" ->
            <<"{">> \o FoldLeft(LAMBDA a, k : a \o Repr(k) \o <<":">> \o Repr(v.o[k.s[1]]),
                                <<>>, Items(v)) \o <<"}">>

\* what an f-string, or str(), prints for a value
Fmt(v) == IF v.t = "str" THEN v.s ELSE Repr(v)

\* sep.join(list of str)
RECURSIVE Join(_, _)
Join(sep, strs) ==
    IF strs = <<>> THEN <<>>
    ELSE IF Len(strs) = 1 THEN strs[1]
    ELSE strs[1] \o <<sep>> \o Join(sep, Tail(strs))

-----------------------------------------------------------------------------
(* detect_model_type *)

NoModes == [modes |-> {}, raised |-> FALSE]

PartitionMode(st, partition) ==
    IF st.raised THEN st
    ELSE IF ~IsObj(partition) THEN [st EXCEPT !.raised = TRUE]
    ELSE LET mode == Get(partition, "mode", S("unknown"))
         IN  IF ~Hashable(mode) THEN [st EXCEPT !.raised = TRUE]
             ELSE [st EXCEPT !.modes = @ \cup {mode}]

TableModes(st, table) ==
    IF st.raised THEN st
    ELSE IF ~CanIn(table) THEN [st EXCEPT !.raised = TRUE]
    ELSE IF ~In("partitions", table) THEN st
    ELSE IF ~IsObj(table) \/ ~CanIter(table.o["partitions"])
         THEN [st EXCEPT !.raised = TRUE]
    ELSE FoldLeft(PartitionMode, st, Items(table.o["partitions"]))

\* detect_model_type with the test for directLake ahead of the test for both modes
detect_model_type_directlake_first(model) ==
    IF ~CanIn(model) THEN "raise"
    ELSE IF ~In("tables", model) THEN "unknown"
    ELSE IF ~IsObj(model) \/ ~CanIter(model.o["tables"]) THEN "raise"
    ELSE LET st == FoldLeft(TableModes, NoModes, Items(model.o["tables"]))
         IN  IF st.raised THEN "raise"
             ELSE IF st.modes = {} THEN "unknown"
             ELSE IF S("directLake") \in st.modes THEN "directlake"
             ELSE IF S("directLake") \in st.modes /\ S("import") \in st.modes
                  THEN "mixed"
             ELSE IF S("import") \in st.modes THEN "import"
             ELSE "unknown"

\* "import", "directlake", "mixed", "unknown", or "raise" when the code raises
detect_model_type(model) ==
    IF ~CanIn(model) THEN "raise"
    ELSE IF ~In("tables", model) THEN "unknown"
    ELSE IF ~IsObj(model) \/ ~CanIter(model.o["tables"]) THEN "raise"
    ELSE LET st == FoldLeft(TableModes, NoModes, Items(model.o["tables"]))
         IN  IF st.raised THEN "raise"
             ELSE IF st.modes = {} THEN "unknown"
             ELSE IF S("directLake") \in st.modes /\ S("import") \in st.modes
                  THEN "mixed"
             ELSE IF S("directLake") \in st.modes THEN "directlake"
             ELSE IF S("import") \in st.modes THEN "import"
             ELSE "unknown"

-----------------------------------------------------------------------------
(* The three lists every check appends to, plus whether the code has raised *)

NewLists == [errors |-> <<>>, warnings |-> <<>>, suggestions |-> <<>>, raised |-> FALSE]

Raise(acc) == [acc EXCEPT !.raised = TRUE]
AddError(acc, msg) == [acc EXCEPT !.errors = Append(@, msg)]
AddWarning(acc, msg) == [acc EXCEPT !.warnings = Append(@, msg)]
AddSuggestion(acc, msg) == [acc EXCEPT !.suggestions = Append(@, msg)]

\* table.get("name", "unnamed_table"), as printed in a message
TableName(table) == Fmt(Get(table, "name", S("unnamed_table")))

-----------------------------------------------------------------------------
(* validate_directlake_partition *)

\* validate_directlake_partition with the test of schemaName turned round
DirectLakePartitionSchemaInverted(table_name, partition, acc) ==
    IF acc.raised THEN acc
    ELSE IF ~In("source", partition) THEN
        AddSuggestion(
            AddError(acc, <<"DirectLake partition in table '">> \o table_name
                          \o <<"' missing '", "source", "' property">>),
            <<"Add source property to DirectLake partition in table '">> \o table_name \o <<"'">>)
    ELSE LET source == partition.o["source"] IN
        IF ~IsObj(source) THEN Raise(acc)
        ELSE
            LET a1 == IF Get(source, "expressionSource", JNull) # S("DatabaseQuery")
                      THEN AddSuggestion(
                               AddWarning(acc, <<"DirectLake partition in table '">> \o table_name
                                   \o <<"' should use ", "expressionSource", "='DatabaseQuery'">>),
                               <<"Set expressionSource to 'DatabaseQuery' in table '">> \o table_name
                                   \o <<"' partition">>)
                      ELSE acc
                a2 == IF In("schemaName", source)
                      THEN AddSuggestion(
                               AddWarning(a1, <<"DirectLake partition in table '">> \o table_name
                                   \o <<"' missing '", "schemaName", "' - may cause connection issues">>),
                               <<"Add 'schemaName' property to DirectLake partition source in table '">>
                                   \o table_name \o <<"' (e.g., 'dbo', 'gold')">>)
                      ELSE a1
            IN  IF ~In("entityName", source)
                THEN AddSuggestion(
                         AddError(a2, <<"DirectLake partition in table '">> \o table_name
                             \o <<"' missing '", "entityName", "'">>),
                         <<"Add 'entityName' property to DirectLake partition source in table '">>
                             \o table_name \o <<"'">>)
                ELSE a2

validate_directlake_partition(table_name, partition, acc) ==
    IF acc.raised THEN acc
    ELSE IF ~In("source", partition) THEN
        AddSuggestion(
            AddError(acc, <<"DirectLake partition in table '">> \o table_name
                          \o <<"' missing '", "source", "' property">>),
            <<"Add source property to DirectLake partition in table '">> \o table_name \o <<"'">>)
    ELSE LET source == partition.o["source"] IN
        IF ~IsObj(source) THEN Raise(acc)
        ELSE
            LET a1 == IF Get(source, "expressionSource", JNull) # S("DatabaseQuery")
                      THEN AddSuggestion(
                               AddWarning(acc, <<"DirectLake partition in table '">> \o table_name
                                   \o <<"' should use ", "expressionSource", "='DatabaseQuery'">>),
                               <<"Set expressionSource to 'DatabaseQuery' in table '">> \o table_name
                                   \o <<"' partition">>)
                      ELSE acc
                a2 == IF ~In("schemaName", source)
                      THEN AddSuggestion(
                               AddWarning(a1, <<"DirectLake partition in table '">> \o table_name
                                   \o <<"' missing '", "schemaName", "' - may cause connection issues">>),
                               <<"Add 'schemaName' property to DirectLake partition source in table '">>
                                   \o table_name \o <<"' (e.g., 'dbo', 'gold')">>)
                      ELSE a1
            IN  IF ~In("entityName", source)
                THEN AddSuggestion(
                         AddError(a2, <<"DirectLake partition in table '">> \o table_name
                             \o <<"' missing '", "entityName", "'">>),
                         <<"Add 'entityName' property to DirectLake partition source in table '">>
                             \o table_name \o <<"'">>)
                ELSE a2

(* validate_import_partition *)

validate_import_partition(table_name, partition, acc) ==
    IF acc.raised THEN acc
    ELSE IF ~In("source", partition) THEN
        AddSuggestion(
            AddError(acc, <<"Import partition in table '">> \o table_name
                          \o <<"' missing '", "source", "' property">>),
            <<"Add source property to Import partition in table '">> \o table_name \o <<"'">>)
    ELSE LET source == partition.o["source"] IN
        IF ~CanIn(source) THEN Raise(acc)
        ELSE
            LET a1 == IF ~In("type", source)
                      THEN AddSuggestion(
                               AddWarning(acc, <<"Import partition source in table '">> \o table_name
                                   \o <<"' missing '", "type", "' property">>),
                               <<"Add 'type' property to Import partition source in table '">>
                                   \o table_name \o <<"' (e.g., 'm', 'sql')">>)
                      ELSE acc
            IN  IF ~IsObj(source) THEN Raise(a1)
                ELSE IF Get(source, "type", JNull) = S("m") /\ ~In("expression", source)
                THEN AddSuggestion(
                         AddError(a1, <<"M partition source in table '">> \o table_name
                             \o <<"' missing '", "expression", "' property">>),
                         <<"Add 'expression' property with M query to partition source in table '">>
                             \o table_name \o <<"'">>)
                ELSE a1

-----------------------------------------------------------------------------
(* validate_directlake_requirements *)

\* the text of expr["expression"] that is searched for the connector; raised when
\* " ".join meets an item that is not a str
ExpressionContent(expr) ==
    LET c == Get(expr, "expression", JStr(<<>>))
    IN  IF c.t = "arr"
        THEN IF \E i \in 1..Len(c.a) : c.a[i].t # "str"
             THEN [raised |-> TRUE, text |-> <<>>]
             ELSE [raised |-> FALSE,
                   text |-> Join(" ", [i \in 1..Len(c.a) |-> c.a[i].s])]
        ELSE [raised |-> FALSE, text |-> Fmt(c)]

SqlDatabase == <<"Sql.", "Database">>

\* DatabaseQueryStep without the test of expr.get("kind")
DatabaseQueryStepAnyKind(st, expr) ==
    IF st.acc.raised THEN st
    ELSE IF ~IsObj(expr) THEN [st EXCEPT !.acc = Raise(@)]
    ELSE IF Get(expr, "name", JNull) = S("DatabaseQuery")
    THEN LET content == ExpressionContent(expr) IN
         IF content.raised THEN [found |-> TRUE, acc |-> Raise(st.acc)]
         ELSE IF ~Contains(content.text, SqlDatabase)
         THEN [found |-> TRUE,
               acc |-> AddSuggestion(
                   AddWarning(st.acc,
                       <<"DatabaseQuery expression doesn't contain Sql.Database() function">>),
                   <<"Ensure DatabaseQuery uses Sql.Database(server, endpoint_id) format">>)]
         ELSE [st EXCEPT !.found = TRUE]
    ELSE st

\* one turn of the loop over model["expressions"]; st.found is database_query_found
DatabaseQueryStep(st, expr) ==
    IF st.acc.raised THEN st
    ELSE IF ~IsObj(expr) THEN [st EXCEPT !.acc = Raise(@)]
    ELSE IF Get(expr, "name", JNull) = S("DatabaseQuery") /\ Get(expr, "kind", JNull) = S("m")
    THEN LET content == ExpressionContent(expr) IN
         IF content.raised THEN [found |-> TRUE, acc |-> Raise(st.acc)]
         ELSE IF ~Contains(content.text, SqlDatabase)
         THEN [found |-> TRUE,
               acc |-> AddSuggestion(
                   AddWarning(st.acc,
                       <<"DatabaseQuery expression doesn't contain Sql.Database() function">>),
                   <<"Ensure DatabaseQuery uses Sql.Database(server, endpoint_id) format">>)]
         ELSE [st EXCEPT !.found = TRUE]
    ELSE st

DirectLakeExpressions(model, acc, optional) ==
    LET error_prefix == IF optional THEN "WARNING" ELSE "CRITICAL:" IN
    IF ~In("expressions", model) THEN
        IF ~optional
        THEN AddSuggestion(
                 AddError(acc, <<error_prefix, " Missing '", "expressions",
                                 "' block - DirectLake models require DatabaseQuery expression">>),
                 <<"Add expressions block with DatabaseQuery using Sql.Database() function">>)
        ELSE acc
    ELSE IF ~IsObj(model) \/ ~CanIter(model.o["expressions"]) THEN Raise(acc)
    ELSE LET st == FoldLeft(DatabaseQueryStep, [found |-> FALSE, acc |-> acc],
                            Items(model.o["expressions"]))
         IN  IF st.acc.raised THEN st.acc
             ELSE IF ~st.found /\ ~optional
             THEN AddSuggestion(
                      AddError(st.acc, <<error_prefix, " ", "DatabaseQuery",
                                         " expression not found in ", "expressions", " block">>),
                      <<"Add DatabaseQuery expression with kind='m' and Sql.Database() function">>)
             ELSE st.acc

\* the loop over table["partitions"] that checks the partitions of one mode
PartitionsOfMode(table, mode, Check(_, _, _), acc) ==
    IF acc.raised THEN acc
    ELSE IF ~IsObj(table) THEN Raise(acc)
    ELSE IF ~In("partitions", table) THEN acc
    ELSE IF ~CanIter(table.o["partitions"]) THEN Raise(acc)
    ELSE FoldLeft(LAMBDA a, partition :
                      IF a.raised THEN a
                      ELSE IF ~IsObj(partition) THEN Raise(a)
                      ELSE IF Get(partition, "mode", JNull) = S(mode)
                           THEN Check(TableName(table), partition, a)
                           ELSE a,
                  acc, Items(table.o["partitions"]))

\* validate_directlake_requirements with a loop that stops after the first table
DirectLakeFirstTableOnly(model, acc, optional) ==
    IF acc.raised THEN acc
    ELSE IF ~CanIn(model) THEN Raise(acc)
    ELSE LET a1 == DirectLakeExpressions(model, acc, optional) IN
         IF a1.raised \/ ~In("tables", model) THEN a1
         ELSE IF ~IsObj(model) \/ ~CanIter(model.o["tables"]) THEN Raise(a1)
         ELSE FoldLeft(LAMBDA a, table :
                           PartitionsOfMode(table, "directLake",
                                            validate_directlake_partition, a),
                       a1, SubSeq(Items(model.o["tables"]), 1, 1))

validate_directlake_requirements(model, acc, optional) ==
    IF acc.raised THEN acc
    ELSE IF ~CanIn(model) THEN Raise(acc)
    ELSE LET a1 == DirectLakeExpressions(model, acc, optional) IN
         IF a1.raised \/ ~In("tables", model) THEN a1
         ELSE IF ~IsObj(model) \/ ~CanIter(model.o["tables"]) THEN Raise(a1)
         ELSE FoldLeft(LAMBDA a, table :
                           PartitionsOfMode(table, "directLake",
                                            validate_directlake_partition, a),
                       a1, Items(model.o["tables"]))

(* validate_import_requirements *)

ImportExpressionStep(acc, expr) ==
    IF acc.raised THEN acc
    ELSE IF ~CanIn(expr) THEN Raise(acc)
    ELSE IF In("expression", expr) THEN acc
    ELSE IF ~IsObj(expr) THEN Raise(acc)
    ELSE AddWarning(acc, <<"Expression '">> \o Fmt(Get(expr, "name", S("unnamed")))
                         \o <<"' missing 'expression' property">>)

validate_import_requirements(model, acc) ==
    IF acc.raised THEN acc
    ELSE IF ~CanIn(model) THEN Raise(acc)
    ELSE LET a1 == IF ~In("expressions", model) THEN acc
                   ELSE IF ~IsObj(model) \/ ~CanIter(model.o["expressions"]) THEN Raise(acc)
                   ELSE FoldLeft(ImportExpressionStep, acc, Items(model.o["expressions"]))
         IN  IF a1.raised \/ ~In("tables", model) THEN a1
             ELSE IF ~IsObj(model) \/ ~CanIter(model.o["tables"]) THEN Raise(a1)
             ELSE FoldLeft(LAMBDA a, table :
                               PartitionsOfMode(table, "import",
                                                validate_import_partition, a),
                           a1, Items(model.o["tables"]))

(* validate_basic_requirements *)

BasicTableStep(acc, table) ==
    IF acc.raised THEN acc
    ELSE IF ~IsObj(table) THEN Raise(acc)
    ELSE IF ~In("partitions", table)
    THEN AddSuggestion(
             AddWarning(acc, <<"Table '">> \o TableName(table)
                             \o <<"' missing ", "partitions", " array">>),
             <<"Add partitions array to table '">> \o TableName(table) \o <<"'">>)
    ELSE acc

validate_basic_requirements(model, acc) ==
    IF acc.raised THEN acc
    ELSE IF ~CanIn(model) THEN Raise(acc)
    ELSE IF ~In("tables", model)
    THEN AddSuggestion(AddError(acc, <<"Model missing 'tables' array">>),
                       <<"Add tables array to model definition">>)
    ELSE IF ~IsObj(model) \/ ~CanIter(model.o["tables"]) THEN Raise(acc)
    ELSE FoldLeft(BasicTableStep, acc, Items(model.o["tables"]))

(* validate_common_requirements *)

CommonTableStep(acc, table) ==
    IF acc.raised THEN acc
    ELSE IF ~IsObj(table) THEN Raise(acc)
    ELSE
        LET table_name == TableName(table)
            a1 == IF In("mode", table)
                  THEN AddSuggestion(
                           AddError(acc, <<"CRITICAL ERROR: Table '">> \o table_name
                               \o <<"' has '", "mode",
                                    "' property at table level - THIS BREAKS DEPLOYMENT!">>),
                           <<"REMOVE 'mode' from table '">> \o table_name
                               \o <<"' - mode belongs in partitions only!">>)
                  ELSE acc
            a2 == IF In("defaultMode", table)
                  THEN AddSuggestion(
                           AddError(a1, <<"CRITICAL ERROR: Table '">> \o table_name
                               \o <<"' has '", "defaultMode", "' property - INVALID!">>),
                           <<"REMOVE 'defaultMode' from table '">> \o table_name \o <<"'">>)
                  ELSE a1
        IN  IF ~In("partitions", table) THEN a2
            ELSE IF ~CanLen(table.o["partitions"]) THEN Raise(a2)
            ELSE IF PyLen(table.o["partitions"]) = 0
            THEN AddSuggestion(
                     AddWarning(a2, <<"Table '">> \o table_name
                                    \o <<"' has empty ", "partitions", " array">>),
                     <<"Add at least one partition to table '">> \o table_name \o <<"'">>)
            ELSE a2

validate_common_requirements(model, acc) ==
    IF acc.raised THEN acc
    ELSE IF ~CanIn(model) THEN Raise(acc)
    ELSE IF ~In("tables", model) THEN acc
    ELSE IF ~IsObj(model) \/ ~CanIter(model.o["tables"]) THEN Raise(acc)
    ELSE FoldLeft(CommonTableStep, acc, Items(model.o["tables"]))

-----------------------------------------------------------------------------
(* validate_table_object_preservation *)

RequiredObjectStep(table_content, table_name, acc, obj_type) ==
    IF In(obj_type, table_content) THEN acc
    ELSE AddSuggestion(
             AddError(acc, <<"CRITICAL: Table '">> \o table_name \o <<"' missing '", obj_type,
                             "' - createOrReplace will DELETE existing ", obj_type, "!">>),
             <<"Include ALL existing ", obj_type, " in table '">> \o table_name
                 \o <<"' to prevent data loss">>)

OptionalObjectStep(table_content, table_name, acc, obj_type) ==
    IF In(obj_type, table_content) THEN acc
    ELSE AddSuggestion(
             AddWarning(acc, <<"Table '">> \o table_name \o <<"' missing '", obj_type,
                               "' - existing ", obj_type, " will be DELETED if they exist!">>),
             <<"If table '">> \o table_name \o <<"' has existing ", obj_type,
               ", include them to prevent deletion">>)

MeasureStep(table_name, measures, acc, i) ==
    LET measure == measures[i] IN
    IF acc.raised THEN acc
    ELSE IF ~CanIn(measure) THEN Raise(acc)
    ELSE LET a1 == IF ~In("name", measure)
                   THEN AddError(acc, <<"Measure #", ToString(i), " in table '">> \o table_name
                                      \o <<"' missing '", "name", "' property">>)
                   ELSE acc
         IN  IF In("expression", measure) THEN a1
             ELSE IF ~IsObj(measure) THEN Raise(a1)
             ELSE AddError(a1, <<"Measure '">>
                               \o Fmt(Get(measure, "name", JStr(<<"#", ToString(i)>>)))
                               \o <<"' in table '">> \o table_name
                               \o <<"' missing '", "expression", "' property">>)

ColumnStep(table_name, columns, acc, i) ==
    LET column == columns[i] IN
    IF acc.raised THEN acc
    ELSE IF ~CanIn(column) THEN Raise(acc)
    ELSE LET a1 == IF ~In("name", column)
                   THEN AddError(acc, <<"Column #", ToString(i), " in table '">> \o table_name
                                      \o <<"' missing '", "name", "' property">>)
                   ELSE acc
         IN  IF In("dataType", column) THEN a1
             ELSE IF ~IsObj(column) THEN Raise(a1)
             ELSE AddWarning(a1, <<"Column '">>
                                 \o Fmt(Get(column, "name", JStr(<<"#", ToString(i)>>)))
                                 \o <<"' in table '">> \o table_name
                                 \o <<"' missing '", "dataType", "' property">>)

PreserveMeasures(table_content, table_name, acc) ==
    IF acc.raised \/ ~In("measures", table_content) THEN acc
    ELSE LET measures == table_content.o["measures"] IN
         IF ~CanLen(measures) THEN Raise(acc)
         ELSE IF PyLen(measures) = 0
         THEN AddSuggestion(
                  AddWarning(acc, <<"Table '">> \o table_name
                      \o <<"' has empty ", "measures",
                           " array - existing measures will be deleted!">>),
                  <<"Include ALL existing measures in table '">> \o table_name
                      \o <<"' or remove empty measures array">>)
         ELSE FoldLeft(LAMBDA a, i : MeasureStep(table_name, Items(measures), a, i),
                       acc, [i \in 1..PyLen(measures) |-> i])

PreserveColumns(table_content, table_name, acc) ==
    IF acc.raised \/ ~In("columns", table_content) THEN acc
    ELSE LET columns == table_content.o["columns"] IN
         IF ~CanLen(columns) THEN Raise(acc)
         ELSE IF PyLen(columns) = 0
         THEN AddSuggestion(
                  AddError(acc, <<"CRITICAL: Table '">> \o table_name
                      \o <<"' has empty ", "columns",
                           " array - ALL existing columns will be DELETED!">>),
                  <<"Include ALL existing columns in table '">> \o table_name
                      \o <<"' - empty array destroys table structure">>)
         ELSE FoldLeft(LAMBDA a, i : ColumnStep(table_name, Items(columns), a, i),
                       acc, [i \in 1..PyLen(columns) |-> i])

required_objects == <<"columns", "partitions">>
optional_objects == <<"measures", "hierarchies", "annotations">>

validate_table_object_preservation(table_content, table_name, acc) ==
    LET a1 == FoldLeft(LAMBDA a, obj_type :
                           RequiredObjectStep(table_content, table_name, a, obj_type),
                       acc, required_objects)
        a2 == FoldLeft(LAMBDA a, obj_type :
                           OptionalObjectStep(table_content, table_name, a, obj_type),
                       a1, optional_objects)
    IN  PreserveColumns(table_content, table_name,
                        PreserveMeasures(table_content, table_name, a2))

-----------------------------------------------------------------------------
(* validate_single_table_tmsl *)

Raised == [raised |-> TRUE]

\* warnings.insert(0, ...) and warnings.insert(1, ...)
ReplaceWarning(table_name) ==
    <<"CRITICAL WARNING: createOrReplace on table '">> \o table_name
        \o <<"' will REPLACE entire table!">>

DeleteWarning == <<"Any existing objects not included will be PERMANENTLY DELETED!">>

\* InsertDestructiveWarnings with append in place of insert(0, ...) and insert(1, ...)
AppendDestructiveWarnings(acc, table_name) ==
    [acc EXCEPT
        !.warnings = @ \o <<ReplaceWarning(table_name), DeleteWarning>>,
        !.suggestions =
            @ \o << <<"VERIFY: Include ALL existing columns, measures, partitions, and hierarchies in table '">>
                        \o table_name \o <<"'">>,
                    <<"BACKUP: Export current table structure before applying changes to table '">>
                        \o table_name \o <<"'">> >>]

InsertDestructiveWarnings(acc, table_name) ==
    [acc EXCEPT
        !.warnings = <<ReplaceWarning(table_name), DeleteWarning>> \o @,
        !.suggestions =
            << <<"VERIFY: Include ALL existing columns, measures, partitions, and hierarchies in table '">>
                   \o table_name \o <<"'">>,
               <<"BACKUP: Export current table structure before applying changes to table '">>
                   \o table_name \o <<"'">> >> \o @]

\* the loop that sets table_type, leaving at the first import or directLake partition
RECURSIVE FirstTypedPartition(_)
FirstTypedPartition(partitions) ==
    IF partitions = <<>> THEN "unknown"
    ELSE IF ~IsObj(Head(partitions)) THEN "raise"
    ELSE LET mode == Get(Head(partitions), "mode", S("unknown")) IN
         IF mode = S("directLake") THEN "directlake"
         ELSE IF mode = S("import") THEN "import"
         ELSE FirstTypedPartition(Tail(partitions))

TableType(table_content) ==
    IF ~In("partitions", table_content) THEN "unknown"
    ELSE IF ~CanIter(table_content.o["partitions"]) THEN "raise"
    ELSE FirstTypedPartition(Items(table_content.o["partitions"]))

SingleTableTypeChecks(table_content, table_type, acc) ==
    IF acc.raised THEN acc
    ELSE IF table_type = "directlake" THEN
        LET a1 == PartitionsOfMode(table_content, "directLake",
                                   validate_directlake_partition, acc)
            directlake_partition_found ==
                \E i \in 1..PyLen(table_content.o["partitions"]) :
                    LET partition == Items(table_content.o["partitions"])[i]
                    IN  IsObj(partition) /\ Get(partition, "mode", JNull) = S("directLake")
        IN  IF a1.raised \/ ~In("partitions", table_content) \/ directlake_partition_found
            THEN a1
            ELSE AddSuggestion(
                     AddError(a1, <<"CRITICAL: Table '">> \o TableName(table_content)
                                  \o <<"' has no DirectLake partition">>),
                     <<"Add partition with mode='directLake' to table '">>
                         \o TableName(table_content) \o <<"'">>)
    ELSE IF table_type = "import" THEN
        PartitionsOfMode(table_content, "import", validate_import_partition, acc)
    ELSE acc

SingleTableResult(table_name, table_type, acc) ==
    [raised |-> FALSE,
     valid |-> Len(acc.errors) = 0,
     error |-> Join("\n", acc.errors),
     suggestions |-> IF acc.suggestions # <<>> THEN Join("\n", acc.suggestions)
                     ELSE <<"Single table '">> \o table_name
                              \o <<"' TMSL structure looks good!">>,
     summary |-> <<"Single table '">> \o table_name \o <<"' validation (", table_type,
                   " type) - DESTRUCTIVE OPERATION WARNING">>,
     warnings |-> IF acc.warnings # <<>> THEN Join("\n", acc.warnings) ELSE <<>>]

validate_single_table_tmsl(tmsl) ==
    LET createOrReplace == Get(tmsl, "createOrReplace", EmptyObj) IN
    IF ~IsObj(createOrReplace) THEN Raised
    ELSE LET table_content == Get(createOrReplace, "table", EmptyObj) IN
    IF ~IsObj(table_content) THEN Raised
    ELSE
        LET table_name == TableName(table_content)
            a1 == validate_table_object_preservation(table_content, table_name, NewLists)
            a2 == InsertDestructiveWarnings(a1, table_name)
            table_type == TableType(table_content)
            a3 == validate_common_requirements(
                      JObj([k \in {"tables"} |-> JArr(<<table_content>>)]), a2)
            a4 == SingleTableTypeChecks(table_content, table_type, a3)
        IN  IF a1.raised \/ table_type = "raise" \/ a4.raised THEN Raised
            ELSE SingleTableResult(table_name, table_type, a4)

-----------------------------------------------------------------------------
(* validate_tmsl_structure *)

\* The text is kept as what json.loads makes of it: parses = FALSE is a text that
\* json.loads rejects with JSONDecodeError, otherwise value is the parsed document.
json_loads(text) == IF text.parses THEN text.value ELSE JNull

JsonErrorResult ==
    [raised |-> FALSE,
     valid |-> FALSE,
     error |-> <<"Invalid JSON syntax: ", "JSONDecodeError">>,
     suggestions |-> <<"Fix JSON syntax errors. Use a JSON validator to check your TMSL structure.">>,
     summary |-> <<"JSON validation failed">>,
     warnings |-> <<>>]

\* lines 96-110: the rules chosen by the model type
ModelTypeRules(model, model_type, acc) ==
    IF model_type = "directlake" THEN
        validate_directlake_requirements(model, acc, FALSE)
    ELSE IF model_type = "import" THEN
        validate_import_requirements(model, acc)
    ELSE IF model_type = "mixed" THEN
        LET a1 == AddSuggestion(
                      AddWarning(acc,
                          <<"Mixed model detected with both Import and DirectLake partitions">>),
                      <<"Consider using consistent partition modes for better performance">>)
            a2 == validate_import_requirements(model, a1)
            \* the DirectLake checks get a fresh errors list, which is dropped
            a3 == validate_directlake_requirements(model, [a2 EXCEPT !.errors = <<>>], TRUE)
        IN  [a3 EXCEPT !.errors = a2.errors]
    ELSE
        validate_basic_requirements(
            model,
            AddWarning(acc,
                <<"Could not determine model type - applying basic validation only">>))

\* WholeModelResult with valid taken from errors and warnings together
WholeModelResultStrict(acc) ==
    LET summary_parts ==
            << IF Len(acc.errors) = 0 THEN <<"No critical errors found">>
               ELSE <<ToString(Len(acc.errors)), " critical errors detected">> >>
            \o IF Len(acc.warnings) > 0
               THEN << <<ToString(Len(acc.warnings)), " warnings">> >> ELSE <<>>
    IN  [raised |-> FALSE,
         valid |-> Len(acc.errors) + Len(acc.warnings) = 0,
         error |-> IF acc.errors # <<>> THEN Join("\n", acc.errors) ELSE <<>>,
         suggestions |-> IF acc.suggestions # <<>> THEN Join("\n", acc.suggestions)
                         ELSE <<"TMSL structure looks good!">>,
         summary |-> Join(" | ", summary_parts),
         warnings |-> IF acc.warnings # <<>> THEN Join("\n", acc.warnings) ELSE <<>>]

\* lines 115-134
WholeModelResult(acc) ==
    LET summary_parts ==
            << IF Len(acc.errors) = 0 THEN <<"No critical errors found">>
               ELSE <<ToString(Len(acc.errors)), " critical errors detected">> >>
            \o IF Len(acc.warnings) > 0
               THEN << <<ToString(Len(acc.warnings)), " warnings">> >> ELSE <<>>
    IN  [raised |-> FALSE,
         valid |-> Len(acc.errors) = 0,
         error |-> IF acc.errors # <<>> THEN Join("\n", acc.errors) ELSE <<>>,
         suggestions |-> IF acc.suggestions # <<>> THEN Join("\n", acc.suggestions)
                         ELSE <<"TMSL structure looks good!">>,
         summary |-> Join(" | ", summary_parts),
         warnings |-> IF acc.warnings # <<>> THEN Join("\n", acc.warnings) ELSE <<>>]

\* lines 90-113: the checks of the whole-model path on model_content
WholeModelChecks(model_content) ==
    IF ~CanIn(model_content) THEN Raise(NewLists)
    ELSE IF ~In("model", model_content) THEN NewLists
    ELSE IF ~IsObj(model_content) THEN Raise(NewLists)
    ELSE LET model == model_content.o["model"]
             model_type == detect_model_type(model)
         IN  IF model_type = "raise" THEN Raise(NewLists)
             ELSE validate_common_requirements(
                      model, ModelTypeRules(model, model_type, NewLists))

\* lines 81-88: "whole" with the model content, "table" for the single-table
\* rule set, "raise"
Dispatch(tmsl) ==
    IF ~CanIn(tmsl) THEN [to |-> "raise"]
    ELSE IF ~In("createOrReplace", tmsl) THEN [to |-> "whole", model_content |-> tmsl]
    ELSE IF ~IsObj(tmsl) \/ ~CanIn(tmsl.o["createOrReplace"]) THEN [to |-> "raise"]
    ELSE LET createOrReplace == tmsl.o["createOrReplace"] IN
         IF In("database", createOrReplace) THEN
             IF ~IsObj(createOrReplace) THEN [to |-> "raise"]
             ELSE [to |-> "whole", model_content |-> createOrReplace.o["database"]]
         ELSE IF In("table", createOrReplace) THEN [to |-> "table"]
         ELSE [to |-> "whole", model_content |-> tmsl]

validate_tmsl_structure(text) ==
    IF ~text.parses THEN JsonErrorResult
    ELSE LET tmsl == json_loads(text)
             d == Dispatch(tmsl)
         IN  IF d.to = "raise" THEN Raised
             ELSE IF d.to = "table" THEN validate_single_table_tmsl(tmsl)
             ELSE LET acc == WholeModelChecks(d.model_content)
                  IN  IF acc.raised THEN Raised ELSE WholeModelResult(acc)

-----------------------------------------------------------------------------
(* The documents the validator is applied to *)

MaxTables == 2

Names == <<"Sales", "Orders", "Items">>

NoField == [k \in {} |-> JNull]
Field(k, v) == k :> v
\* a member that is there or not
Opt(present, k, v) == IF present THEN k :> v ELSE NoField
\* a str member with one of the given values; "" stands for: no such member
OptStr(k, tok) == IF tok = "" THEN NoField ELSE k :> S(tok)

MText == S("let Source = ... in Source")

ImportSources ==
    { JObj(OptStr("type", ty) @@ Opt(ex, "expression", MText)) :
        ty \in {"", "m", "sql"}, ex \in BOOLEAN }

DirectLakeSources ==
    { JObj(Opt(en, "entityName", S("sales")) @@ Opt(sn, "schemaName", S("dbo"))
           @@ OptStr("expressionSource", es)) :
        en \in BOOLEAN, sn \in BOOLEAN, es \in {"", "DatabaseQuery", "OtherQuery"} }

Partition(mode, hasSource, source) ==
    JObj(Field("name", S("p")) @@ OptStr("mode", mode) @@ Opt(hasSource, "source", source))

ImportPartitions ==
    {Partition("import", FALSE, JNull)}
        \cup {Partition("import", TRUE, src) : src \in ImportSources}

DirectLakePartitions ==
    {Partition("directLake", FALSE, JNull)}
        \cup {Partition("directLake", TRUE, src) : src \in DirectLakeSources}

OtherPartitions == {Partition("dual", FALSE, JNull), Partition("", FALSE, JNull)}

Partitions == ImportPartitions \cup DirectLakePartitions \cup OtherPartitions

GoodImport ==
    Partition("import", TRUE, JObj(Field("type", S("m")) @@ Field("expression", MText)))
BadImport == Partition("import", TRUE, JObj(Field("type", S("m"))))
GoodDirectLake ==
    Partition("directLake", TRUE,
              JObj(Field("entityName", S("sales")) @@ Field("schemaName", S("dbo"))
                   @@ Field("expressionSource", S("DatabaseQuery"))))
BadDirectLake ==
    Partition("directLake", TRUE,
              JObj(Field("schemaName", S("dbo"))
                   @@ Field("expressionSource", S("DatabaseQuery"))))

CorePartitions == {GoodImport, BadImport, GoodDirectLake, BadDirectLake}

\* the partitions member of a table: [present, value]
PartitionLists ==
    {[present |-> FALSE, value |-> JNull], [present |-> TRUE, value |-> JArr(<<>>)]}
        \cup {[present |-> TRUE, value |-> JArr(<<p>>)] : p \in Partitions}
        \cup {[present |-> TRUE, value |-> JArr(<<p, q>>)] :
                 p \in CorePartitions, q \in CorePartitions}

CorePartitionLists ==
    {[present |-> FALSE, value |-> JNull], [present |-> TRUE, value |-> JArr(<<>>)],
     [present |-> TRUE, value |-> JArr(<<GoodImport>>)],
     [present |-> TRUE, value |-> JArr(<<GoodDirectLake>>)]}

Column(hasName, hasType) ==
    JObj(Opt(hasName, "name", S("Amount")) @@ Opt(hasType, "dataType", S("double")))

Measure(hasName, hasExpression) ==
    JObj(Opt(hasName, "name", S("Total")) @@ Opt(hasExpression, "expression", S("SUM(x)")))

\* the columns (or measures) member of a table: [present, value]
ObjectLists(Make(_, _)) ==
    {[present |-> FALSE, value |-> JNull], [present |-> TRUE, value |-> JArr(<<>>)],
     [present |-> TRUE, value |-> JArr(<<Make(TRUE, TRUE), Make(FALSE, FALSE)>>)]}
        \cup {[present |-> TRUE, value |-> JArr(<<Make(n, x)>>)] : n \in BOOLEAN, x \in BOOLEAN}

GoodColumns == [present |-> TRUE, value |-> JArr(<<Column(TRUE, TRUE)>>)]
GoodMeasures == [present |-> TRUE, value |-> JArr(<<Measure(TRUE, TRUE)>>)]
NoMember == [present |-> FALSE, value |-> JNull]

\* a table object; name = "" is a table without a name
Table(name, hasMode, hasDefaultMode, partitions, columns, measures, hasOther) ==
    JObj(OptStr("name", name)
         @@ Opt(hasMode, "mode", S("directLake"))
         @@ Opt(hasDefaultMode, "defaultMode", S("directLake"))
         @@ Opt(partitions.present, "partitions", partitions.value)
         @@ Opt(columns.present, "columns", columns.value)
         @@ Opt(measures.present, "measures", measures.value)
         @@ Opt(hasOther, "hierarchies", JArr(<<>>))
         @@ Opt(hasOther, "annotations", JArr(<<>>)))

FlagPartitionLists ==
    {[present |-> FALSE, value |-> JNull],
     [present |-> TRUE, value |-> JArr(<<GoodImport>>)]}

\* the tables of whole-model documents, still without their names
TableShapes ==
    {[named |-> TRUE, mode |-> FALSE, defaultMode |-> FALSE, partitions |-> pl] :
        pl \in PartitionLists}
    \cup {[named |-> n, mode |-> m, defaultMode |-> d, partitions |-> pl] :
             n \in BOOLEAN, m \in BOOLEAN, d \in BOOLEAN, pl \in FlagPartitionLists}

ShapedTable(shape, name) ==
    Table(IF shape.named THEN name ELSE "", shape.mode, shape.defaultMode,
          shape.partitions, GoodColumns, NoMember, FALSE)

TableLists(Shapes) ==
    UNION { { JArr([i \in 1..n |-> ShapedTable(f[i], Names[i])]) : f \in [1..n -> Shapes] } :
            n \in 0..MaxTables }

Expression(name, kind, hasExpression, expression) ==
    JObj(OptStr("name", name) @@ OptStr("kind", kind)
         @@ Opt(hasExpression, "expression", expression))

SqlText == JStr(<<"let db = ", "Sql.", "Database", "(server, id) in db">>)
OtherText == JStr(<<"let db = ", "Sql.", "Query", "(server, id) in db">>)
SqlLines == JArr(<<S("let"), JStr(<<"db = ", "Sql.", "Database", "(server, id)">>)>>)
SplitLines == JArr(<<S("Sql."), S("Database")>>)

GoodExpressions == JArr(<<Expression("DatabaseQuery", "m", TRUE, SqlText)>>)

\* the expressions member of a model: [present, value]
ExpressionLists ==
    {NoMember, [present |-> TRUE, value |-> JArr(<<>>)]}
        \cup {[present |-> TRUE, value |-> JArr(<<Expression(n, k, TRUE, x)>>)] :
                 n \in {"DatabaseQuery", "Other"}, k \in {"m", "sql"},
                 x \in {SqlText, OtherText}}
        \cup {[present |-> TRUE, value |-> JArr(<<Expression("DatabaseQuery", "m", TRUE, x)>>)] :
                 x \in {SqlLines, SplitLines, JNull}}
        \cup {[present |-> TRUE,
               value |-> JArr(<<Expression("Other", "m", FALSE, JNull),
                                Expression("DatabaseQuery", "m", e, SqlText)>>)] :
                 e \in BOOLEAN}
        \cup {[present |-> TRUE,
               value |-> JArr(<<Expression("DatabaseQuery", "m", TRUE, SqlText),
                                Expression("DatabaseQuery", "m", TRUE, OtherText)>>)]}

CoreExpressionLists == {NoMember, [present |-> TRUE, value |-> GoodExpressions]}

Model(hasTables, tables, expressions) ==
    JObj(Opt(hasTables, "tables", tables)
         @@ Opt(expressions.present, "expressions", expressions.value))

CoreShapes ==
    {[named |-> TRUE, mode |-> FALSE, defaultMode |-> FALSE, partitions |-> pl] :
        pl \in CorePartitionLists}

\* a model with the given table shapes
WideModel(n, shapes, expressions) ==
    Model(TRUE, JArr([i \in 1..n |-> ShapedTable(shapes[i], Names[i])]), expressions)

\* every expressions member, with a few tables
CoreModels ==
    {Model(FALSE, JNull, ex) : ex \in ExpressionLists}
        \cup {Model(TRUE, ts, ex) : ts \in TableLists(CoreShapes), ex \in ExpressionLists}

\* the envelopes of a whole model
DatabaseEnvelope(model) ==
    JObj(Field("createOrReplace",
               JObj(Field("object", JObj(Field("database", S("db"))))
                    @@ Field("database", JObj(Field("name", S("db")) @@ Field("model", model))))))

BareModel(model) == JObj(Field("name", S("db")) @@ Field("model", model))

WholeModelDocs ==
    {DatabaseEnvelope(m) : m \in CoreModels} \cup {BareModel(m) : m \in CoreModels}


\* single-table documents: createOrReplace.table
TableContents ==
    {Table(IF n THEN "Sales" ELSE "", m, d, pl, GoodColumns, ms, TRUE) :
        n \in BOOLEAN, m \in BOOLEAN, d \in BOOLEAN, pl \in PartitionLists,
        ms \in {NoMember, GoodMeasures}}
    \cup {Table("Sales", m, FALSE, pl, cs, ms, o) :
             m \in BOOLEAN, pl \in CorePartitionLists, cs \in ObjectLists(Column),
             ms \in ObjectLists(Measure), o \in BOOLEAN}

TableEnvelope(table_content) ==
    JObj(Field("createOrReplace",
               JObj(Field("object", JObj(Field("database", S("db")) @@ Field("table", S("Sales"))))
                    @@ Field("table", table_content))))

SingleTableDocs == {TableEnvelope(t) : t \in TableContents}

CoreTableContents ==
    {Table("Sales", m, d, pl, cs, GoodMeasures, TRUE) :
        m \in BOOLEAN, d \in BOOLEAN, pl \in CorePartitionLists,
        cs \in {GoodColumns, NoMember}}

\* bare table content, without envelope
BareTableDocs == CoreTableContents

SmallModels ==
    {Model(TRUE, ts, ex) : ts \in TableLists(CoreShapes), ex \in CoreExpressionLists}

\* createOrReplace with a database member and a table member, or with neither
OddEnvelopeDocs ==
    {JObj(Field("createOrReplace",
                JObj(Field("database", JObj(Field("model", m))) @@ Field("table", t)))) :
        m \in SmallModels, t \in CoreTableContents}
    \cup {JObj(Field("createOrReplace", JObj(Field("object", S("db"))))
               @@ Field("model", m)) : m \in SmallModels}

\* values of the wrong JSON type
Junk ==
    {JNull, JNum, JBool(TRUE), JStr(<<>>), S("x"), JArr(<<>>), JArr(<<JNum>>), EmptyObj,
     S("createOrReplace"), JArr(<<S("table")>>), JArr(<<S("model")>>)}

JunkTable(k, j) ==
    JObj(Field("name", S("Sales")) @@ Field("columns", JArr(<<Column(TRUE, TRUE)>>))
         @@ Field("partitions", JArr(<<GoodImport>>)) @@ Field(k, j))

\* documents that hold a value of the wrong type at one place
IllTypedDocs ==
    Junk
    \cup {JObj(Field("createOrReplace", j)) : j \in Junk}
    \cup {JObj(Field("createOrReplace", JObj(Field("database", j)))) : j \in Junk}
    \cup {JObj(Field("createOrReplace", JObj(Field("table", j)))) : j \in Junk}
    \cup {TableEnvelope(JunkTable(k, j)) :
             k \in {"partitions", "columns", "measures", "name"}, j \in Junk}
    \cup {TableEnvelope(JunkTable(k, JArr(<<j>>))) :
             k \in {"partitions", "columns", "measures"}, j \in Junk}
    \cup {BareModel(j) : j \in Junk}
    \cup {BareModel(JObj(Field(k, j))) : k \in {"tables", "expressions"}, j \in Junk}
    \cup {BareModel(JObj(Field("tables", JArr(<<j>>)))) : j \in Junk}
    \cup {BareModel(JObj(Field("tables", JArr(<<JunkTable(k, j)>>)))) :
             k \in {"partitions", "name"}, j \in Junk}
    \cup {BareModel(JObj(Field("tables", JArr(<<JunkTable("partitions", JArr(<<j>>))>>)))) :
             j \in Junk}
    \cup {BareModel(JObj(Field("tables",
              JArr(<<JunkTable("partitions",
                         JArr(<<JObj(Field("mode", S(mode)) @@ Field(k, j))>>))>>)))) :
             mode \in {"import", "directLake"}, k \in {"source", "mode"}, j \in Junk}
    \cup {BareModel(JObj(Field("tables", JArr(<<JunkTable("partitions", JArr(<<p>>))>>))
                         @@ Field("expressions", x))) :
             p \in {GoodImport, GoodDirectLake},
             x \in Junk \cup {JArr(<<j>>) : j \in Junk}
                   \cup {JArr(<<Expression("DatabaseQuery", "m", TRUE, j)>>) : j \in Junk}}

Docs ==
    WholeModelDocs \cup SingleTableDocs \cup BareTableDocs \cup OddEnvelopeDocs
        \cup IllTypedDocs

InvalidText == [parses |-> FALSE, value |-> JNull]
Text(doc) == [parses |-> TRUE, value |-> doc]

Texts == {InvalidText} \cup {Text(d) : d \in Docs}

\* the whole-model documents with every table shape
IsWideText(text) ==
    \E n \in 0..MaxTables : \E shapes \in [1..n -> TableShapes] :
        \E expressions \in CoreExpressionLists :
            text = Text(DatabaseEnvelope(WideModel(n, shapes, expressions)))

-----------------------------------------------------------------------------
(* The validator applied to a text *)

NoResult == [raised |-> FALSE, none |-> TRUE]

\* no call of the normalizer is under way
NoText == [form |-> "none"]
NormalizerIdle == raw = NoText /\ normalized = NoResult /\ rounds = 0

\* no BPAService has been constructed
NoService == [constructed |-> FALSE]
NoReply == [op |-> "none"]
ServiceIdle ==
    catalog = FALSE /\ service = NoService /\ reply = NoReply /\ previous = NoReply

\* the other units are not in use
RulesIdle == descriptors = <<>> /\ model_objects = <<>>
NoCalls == [c \in {} |-> 0]
NoHistory == [writer |-> "none", overlapped |-> FALSE]
OverlapIdle == calls = NoCalls /\ history = NoHistory
NoWorkflow == [at |-> "none"]
NoEdits == [at |-> "none"]
HelperIdle == workflow = NoWorkflow /\ edits = NoEdits
RestIdle == cleanup = "none" /\ RulesIdle /\ OverlapIdle /\ HelperIdle

OthersIdle == NormalizerIdle /\ ServiceIdle /\ RestIdle

Init ==
    /\ \/ tmsl_definition \in Texts
       \/ IsWideText(tmsl_definition)
    /\ result = NoResult
    /\ pc = "call"
    /\ validate_only = FALSE
    /\ access_token = TRUE
    /\ connected = FALSE
    /\ validation_result = NoResult
    /\ final_tmsl = "none"
    /\ executed = 0
    /\ retval = "none"
    /\ OthersIdle

CallValidate ==
    /\ pc = "call"
    /\ result' = validate_tmsl_structure(tmsl_definition)
    /\ pc' = "returned"
    /\ UNCHANGED <<tmsl_definition, validate_only, access_token, connected,
                   validation_result, final_tmsl, executed, retval, other_vars>>

Next == CallValidate

Spec == Init /\ [][Next]_vars

-----------------------------------------------------------------------------
(* update_model_using_tmsl *)

\* the texts the handler is called with
UpdateTexts ==
    {InvalidText}
        \cup {Text(d) : d \in BareTableDocs \cup OddEnvelopeDocs \cup IllTypedDocs}
        \cup {Text(DatabaseEnvelope(m)) : m \in SmallModels}
        \cup {Text(BareModel(m)) : m \in SmallModels}
        \cup {Text(TableEnvelope(t)) : t \in CoreTableContents}

InitUpdate ==
    /\ tmsl_definition \in UpdateTexts
    /\ validate_only \in BOOLEAN
    /\ access_token \in BOOLEAN
    /\ result = NoResult
    /\ pc = "start"
    /\ connected = FALSE
    /\ validation_result = NoResult
    /\ final_tmsl = "none"
    /\ executed = 0
    /\ retval = "none"
    /\ OthersIdle

\* what the validator's result says: a result was returned and its valid is true
IsValid(r) == ~r.raised /\ "valid" \in DOMAIN r /\ r.valid

\* lines 1458-1464
UpdateStart ==
    /\ pc = "start"
    /\ IF ~access_token
       THEN retval' = "Error: No valid access token available" /\ pc' = "returned"
       ELSE retval' = retval /\ pc' = "connect"
    /\ UNCHANGED <<tmsl_definition, result, validate_only, access_token, connected,
                   validation_result, final_tmsl, executed, other_vars>>

\* line 1467; server.Connect may raise, which the handlers of lines 1594-1610 answer
UpdateConnect ==
    /\ pc = "connect"
    /\ \E raises \in BOOLEAN :
        IF raises
        THEN /\ connected' = FALSE
             /\ retval' = "Error connecting to Power BI service"
             /\ pc' = "finally"
        ELSE /\ connected' = TRUE
             /\ retval' = retval
             /\ pc' = "validate"
    /\ UNCHANGED <<tmsl_definition, result, validate_only, access_token,
                   validation_result, final_tmsl, executed, other_vars>>

\* UpdateValidate without the test of validation_result['valid']
UpdateValidateUngated ==
    /\ pc = "validate"
    /\ validation_result' = validate_tmsl_structure(tmsl_definition)
    /\ IF validation_result'.raised
       THEN retval' = "Error updating TMSL definition" /\ pc' = "finally"
       ELSE IF validate_only
       THEN retval' = "TMSL Validation Passed" /\ pc' = "finally"
       ELSE retval' = retval /\ pc' = "parse"
    /\ UNCHANGED <<tmsl_definition, result, validate_only, access_token, connected,
                   final_tmsl, executed, other_vars>>

\* lines 1470-1476; an exception of the validator is answered by lines 1597-1610
UpdateValidate ==
    /\ pc = "validate"
    /\ validation_result' = validate_tmsl_structure(tmsl_definition)
    /\ IF validation_result'.raised
       THEN retval' = "Error updating TMSL definition" /\ pc' = "finally"
       ELSE IF ~validation_result'.valid
       THEN retval' = "TMSL Validation Failed" /\ pc' = "finally"
       ELSE IF validate_only
       THEN retval' = "TMSL Validation Passed" /\ pc' = "finally"
       ELSE retval' = retval /\ pc' = "parse"
    /\ UNCHANGED <<tmsl_definition, result, validate_only, access_token, connected,
                   final_tmsl, executed, other_vars>>

\* lines 1479-1482
UpdateParse ==
    /\ pc = "parse"
    /\ IF ~tmsl_definition.parses
       THEN retval' = "Error: Invalid JSON in TMSL definition" /\ pc' = "finally"
       ELSE retval' = retval /\ pc' = "wrap"
    /\ UNCHANGED <<tmsl_definition, result, validate_only, access_token, connected,
                   validation_result, final_tmsl, executed, other_vars>>

\* what count_nodes_with_name may return
NodeCounts == 0..2

\* lines 1503-1514: table_name, "" when it cannot be determined, "raise"
WrapTableName(tmsl) ==
    IF ~CanIn(tmsl) THEN "raise"
    ELSE IF In("name", tmsl) THEN
        IF ~IsObj(tmsl) THEN "raise"
        ELSE LET name == tmsl.o["name"] IN
             IF name.t \in {"null", "num"} \/ (name.t = "bool" /\ ~name.b)
                \/ (CanLen(name) /\ PyLen(name) = 0)
             THEN "" ELSE "name"
    ELSE ""

\* lines 1484-1534
UpdateWrap ==
    /\ pc = "wrap"
    /\ \E databaseCount \in NodeCounts, tableCount \in NodeCounts :
        LET tmsl == json_loads(tmsl_definition) IN
        IF ~CanIn(tmsl)
        THEN final_tmsl' = final_tmsl /\ retval' = "Error updating TMSL definition"
             /\ pc' = "finally"
        ELSE IF In("createOrReplace", tmsl)
        THEN final_tmsl' = "as_is" /\ retval' = retval /\ pc' = "execute"
        ELSE IF databaseCount > 0
        THEN final_tmsl' = "database" /\ retval' = retval /\ pc' = "execute"
        ELSE IF tableCount = 1
        THEN IF WrapTableName(tmsl) = "raise"
             THEN final_tmsl' = final_tmsl /\ retval' = "Error updating TMSL definition"
                  /\ pc' = "finally"
             ELSE IF WrapTableName(tmsl) = ""
             THEN final_tmsl' = final_tmsl
                  /\ retval' = "Error: Cannot determine table name from TMSL definition"
                  /\ pc' = "finally"
             ELSE final_tmsl' = "table" /\ retval' = retval /\ pc' = "execute"
        ELSE final_tmsl' = "database" /\ retval' = retval /\ pc' = "execute"
    /\ UNCHANGED <<tmsl_definition, result, validate_only, access_token, connected,
                   validation_result, executed, other_vars>>

\* what server.Execute may do: raise, return None, or return results that hold
\* errors, only warnings, only messages, or nothing
ExecuteOutcomes == {"raise", "None", "errors", "warnings", "messages", "empty"}

\* lines 1536-1590
UpdateExecute ==
    /\ pc = "execute"
    /\ executed' = executed + 1
    /\ \E outcome \in ExecuteOutcomes :
        retval' = CASE outcome = "raise" -> "Error updating TMSL definition"
                    [] outcome = "None" -> "TMSL definition updated successfully"
                    [] outcome = "errors" -> "Error updating TMSL definition for dataset"
                    [] outcome = "warnings" -> "TMSL definition updated with warnings"
                    [] outcome = "messages" -> "TMSL definition updated. Server messages"
                    [] outcome = "empty" -> "TMSL definition updated successfully"
    /\ pc' = "finally"
    /\ UNCHANGED <<tmsl_definition, result, validate_only, access_token, connected,
                   validation_result, final_tmsl, other_vars>>

\* what the cleanup may do: server.Disconnect closes the connection, or the
\* cleanup raises (in server.Disconnect or in reading server.Connected), after
\* which the connection is closed or still open
DisconnectOutcomes == {"closed", "raise_closed", "raise_open"}

\* the finally block that never calls server.Disconnect
FinallySkipping(conn, outcome) == [connected |-> conn, cleanup |-> "skipped"]

\* lines 1611-1617: server.Disconnect is called when server.Connected, and what
\* it raises is ignored
Finally(conn, outcome) ==
    IF ~conn THEN [connected |-> FALSE, cleanup |-> "skipped"]
    ELSE IF outcome = "closed" THEN [connected |-> FALSE, cleanup |-> "closed"]
    ELSE [connected |-> outcome = "raise_open", cleanup |-> "failed"]

UpdateFinally ==
    /\ pc = "finally"
    /\ \E outcome \in DisconnectOutcomes :
        /\ connected' = Finally(connected, outcome).connected
        /\ cleanup' = Finally(connected, outcome).cleanup
    /\ pc' = "returned"
    /\ UNCHANGED <<tmsl_definition, result, validate_only, access_token,
                   validation_result, final_tmsl, executed, retval,
                   raw, normalized, rounds, service_vars, rules_vars, overlap_vars,
                   helper_vars>>

NextUpdate ==
    \/ UpdateStart
    \/ UpdateConnect
    \/ UpdateValidate
    \/ UpdateParse
    \/ UpdateWrap
    \/ UpdateExecute
    \/ UpdateFinally

SpecUpdate == InitUpdate /\ [][NextUpdate]_vars

-----------------------------------------------------------------------------
(* The vocabulary of the properties *)

\* the document of the text, and the result of a call that has returned one
Payload == tmsl_definition.value
Returned == pc = "returned" /\ ~result.raised
ReturnedParsed == Returned /\ tmsl_definition.parses

\* the lines of a text joined with "\n"
RECURSIVE Lines(_)
Lines(text) ==
    IF text = <<>> THEN <<>>
    ELSE IF \E i \in 1..Len(text) : text[i] = "\n"
    THEN LET i == CHOOSE i \in 1..Len(text) :
                      text[i] = "\n" /\ \A j \in 1..(i - 1) : text[j] # "\n"
         IN  <<SubSeq(text, 1, i - 1)>> \o Lines(SubSeq(text, i + 1, Len(text)))
    ELSE <<text>>

\* some line of the text holds every one of the parts
Mentions(text, parts) ==
    \E i \in 1..Len(Lines(text)) :
        \A j \in 1..Len(parts) : Contains(Lines(text)[i], parts[j])

HasLine(text, line) == \E i \in 1..Len(Lines(text)) : Lines(text)[i] = line

\* the payload shapes
HasEnvelope(doc) ==
    IsObj(doc) /\ In("createOrReplace", doc) /\ IsObj(doc.o["createOrReplace"])
HasDatabaseEnvelope(doc) == HasEnvelope(doc) /\ In("database", doc.o["createOrReplace"])
HasTableEnvelope(doc) == HasEnvelope(doc) /\ In("table", doc.o["createOrReplace"])
IsBare(doc) == IsObj(doc) /\ ~In("createOrReplace", doc)

EnvelopeTable(doc) == doc.o["createOrReplace"].o["table"]

\* the content a whole-model payload carries
WholeContent(doc) ==
    IF HasDatabaseEnvelope(doc) THEN doc.o["createOrReplace"].o["database"] ELSE doc

IsWholeModel(doc) ==
    /\ HasDatabaseEnvelope(doc) \/ IsBare(doc)
    /\ IsObj(WholeContent(doc))
    /\ In("model", WholeContent(doc))

PayloadModel(doc) == WholeContent(doc).o["model"]

\* the table objects of a model, and the partition objects of a table
ObjectsOf(v, k) ==
    IF IsObj(v) /\ In(k, v) /\ v.o[k].t = "arr"
    THEN SelectSeq(v.o[k].a, LAMBDA x : IsObj(x))
    ELSE <<>>

ModelTables(model) == ObjectsOf(model, "tables")
TablePartitions(table) == ObjectsOf(table, "partitions")

Range(s) == {s[i] : i \in 1..Len(s)}

\* the partitions of one mode that have a source object: <<table, source>> pairs
SourcesOfMode(model, mode) ==
    UNION { { <<table, partition.o["source"]>> :
                partition \in { p \in Range(TablePartitions(table)) :
                                  /\ Get(p, "mode", JNull) = S(mode)
                                  /\ In("source", p)
                                  /\ IsObj(p.o["source"]) } } :
            table \in Range(ModelTables(model)) }

\* every table object a payload carries, whatever its shape
PayloadTables(doc) ==
    IF HasEnvelope(doc) THEN
        (IF HasDatabaseEnvelope(doc) /\ IsWholeModel(doc)
         THEN ModelTables(PayloadModel(doc)) ELSE <<>>)
        \o (IF HasTableEnvelope(doc) /\ IsObj(EnvelopeTable(doc))
            THEN <<EnvelopeTable(doc)>> ELSE <<>>)
    ELSE IF IsWholeModel(doc) THEN ModelTables(PayloadModel(doc))
    ELSE IF IsObj(doc) THEN <<doc>>
    ELSE <<>>

Classified(model_type) ==
    /\ ReturnedParsed
    /\ IsWholeModel(Payload)
    /\ detect_model_type(PayloadModel(Payload)) = model_type

-----------------------------------------------------------------------------
(* Properties of validate_tmsl_structure *)

\* C1: validate_tmsl_structure never raises: whatever the text is, the call
\* returns a result.
C1_NeverRaises == pc = "returned" => ~result.raised

\* C2: whatever the payload shape and the model type, a table object that
\* carries mode or defaultMode makes the result invalid, with an error that names
\* the table and the property.
C2_TableModeIsError ==
    ReturnedParsed =>
        \A i \in 1..Len(PayloadTables(Payload)) : \A prop \in {"mode", "defaultMode"} :
            In(prop, PayloadTables(Payload)[i]) =>
                /\ ~result.valid
                /\ Mentions(result.error,
                            <<TableName(PayloadTables(Payload)[i]), <<prop>> >>)

\* C3: a single-table payload whose table has no columns member, an empty
\* columns array or an empty partitions array is invalid.
C3_MissingObjectsAreErrors ==
    (ReturnedParsed /\ HasTableEnvelope(Payload) /\ ~HasDatabaseEnvelope(Payload)) =>
        LET table == EnvelopeTable(Payload) IN
        ( \/ ~In("columns", table)
          \/ table.o["columns"] = JArr(<<>>)
          \/ (In("partitions", table) /\ table.o["partitions"] = JArr(<<>>)) )
        => ~result.valid

\* C5: in every result, valid is true exactly when the error field is the
\* empty string.
C5_ValidIffNoError ==
    Returned => (result.valid <=> result.error = <<>>)

C5_Witness ==
    /\ ReturnedParsed
    /\ IsWholeModel(Payload)
    /\ ~result.valid
    /\ result.error # <<>>
    /\ result.warnings # <<>>

BrokenDirectLakeRules(model) ==
    { k \in {"expressions", "DatabaseQuery", "source", "entityName"} :
        Mentions(Join("\n", validate_directlake_requirements(model, NewLists, FALSE).errors),
                 << <<k>> >>) }

\* C7: in a Mixed model every broken DirectLake rule is reported as a warning,
\* a broken Import rule is an error, and a warning about the mixed modes is there.
C7_MixedDirectLakeAdvisory ==
    Classified("mixed") =>
        /\ \A k \in BrokenDirectLakeRules(PayloadModel(Payload)) :
              Mentions(result.warnings, << <<k>> >>)
        /\ \A ts \in SourcesOfMode(PayloadModel(Payload), "import") :
              (Get(ts[2], "type", JNull) = S("m") /\ ~In("expression", ts[2]))
                  => ~result.valid
        /\ HasLine(result.warnings,
                   <<"Mixed model detected with both Import and DirectLake partitions">>)

\* the DatabaseQuery expressions of kind m
DatabaseQueries(model) ==
    SelectSeq(ObjectsOf(model, "expressions"),
              LAMBDA expr : /\ Get(expr, "name", JNull) = S("DatabaseQuery")
                            /\ Get(expr, "kind", JNull) = S("m"))

LacksConnector(expr) == ~Contains(ExpressionContent(expr).text, SqlDatabase)

ConnectorWarning == <<"DatabaseQuery expression doesn't contain Sql.Database() function">>

\* C8: in a DirectLake model, no expressions block, or a block without a
\* DatabaseQuery of kind m, is an error that mentions it; a DatabaseQuery whose
\* body lacks the connector gives a warning and no error.
C8_DirectLakeExpressions ==
    Classified("directlake") =>
        LET model == PayloadModel(Payload) IN
        /\ ~In("expressions", model) =>
              ~result.valid /\ Mentions(result.error, << <<"expressions">> >>)
        /\ (In("expressions", model) /\ DatabaseQueries(model) = <<>>) =>
              ~result.valid /\ Mentions(result.error, << <<"DatabaseQuery">> >>)
        /\ (\E i \in 1..Len(DatabaseQueries(model)) : LacksConnector(DatabaseQueries(model)[i])) =>
              /\ HasLine(result.warnings, ConnectorWarning)
              /\ ~Mentions(result.error, <<ConnectorWarning>>)
              /\ ~Mentions(result.error, << <<"DatabaseQuery">> >>)
              /\ ~Mentions(result.error, << <<"expressions">> >>)

C8_Witness ==
    /\ Classified("directlake")
    /\ Len(DatabaseQueries(PayloadModel(Payload))) = 1
    /\ LacksConnector(DatabaseQueries(PayloadModel(Payload))[1])
    /\ HasLine(result.warnings, ConnectorWarning)
    /\ result.valid

\* C9: in a DirectLake model, for every directLake partition of every table: a
\* source without entityName is an error, a source without schemaName a warning,
\* an expressionSource other than DatabaseQuery a warning, and neither warning is
\* an error.
C9_DirectLakePartitions ==
    Classified("directlake") =>
        \A ts \in SourcesOfMode(PayloadModel(Payload), "directLake") :
            /\ ~In("entityName", ts[2]) =>
                  /\ ~result.valid
                  /\ Mentions(result.error, <<TableName(ts[1]), <<"entityName">> >>)
            /\ ~In("schemaName", ts[2]) =>
                  Mentions(result.warnings, <<TableName(ts[1]), <<"schemaName">> >>)
            /\ (In("expressionSource", ts[2]) /\ ts[2].o["expressionSource"] # S("DatabaseQuery")) =>
                  Mentions(result.warnings, <<TableName(ts[1]), <<"expressionSource">> >>)
            /\ ~Mentions(result.error, << <<"schemaName">> >>)
            /\ ~Mentions(result.error, << <<"expressionSource">> >>)

C9_Witness ==
    /\ Classified("directlake")
    /\ Len(ModelTables(PayloadModel(Payload))) = 2
    /\ \E ts \in SourcesOfMode(PayloadModel(Payload), "directLake") :
          /\ ts[1] = ModelTables(PayloadModel(Payload))[2]
          /\ ~In("schemaName", ts[2])
          /\ In("entityName", ts[2])
          /\ Get(ts[2], "expressionSource", JNull) = S("OtherQuery")
    /\ result.valid
    /\ Mentions(result.warnings, << <<Names[2]>>, <<"schemaName">> >>)

\* C10: in an Import model, an import partition whose source has no type makes
\* the result invalid, and a source of type m without expression is an error.
C10_ImportSourceType ==
    Classified("import") =>
        \A ts \in SourcesOfMode(PayloadModel(Payload), "import") :
            /\ ~In("type", ts[2]) => ~result.valid
            /\ (Get(ts[2], "type", JNull) = S("m") /\ ~In("expression", ts[2])) =>
                  /\ ~result.valid
                  /\ Mentions(result.error, <<TableName(ts[1]), <<"expression">> >>)

-----------------------------------------------------------------------------
(* Properties of update_model_using_tmsl *)

\* C4: server.Execute is reached only with validate_only false and after
\* validate_tmsl_structure returned valid = true for the same text; so a call
\* with an invalid text or with validate_only true returns without Execute.
C4_ExecuteGated ==
    (pc = "execute" \/ executed > 0) =>
        /\ ~validate_only
        /\ IsValid(validation_result)
        /\ validation_result = validate_tmsl_structure(tmsl_definition)

C4_Witness ==
    /\ pc = "returned"
    /\ executed = 1
    /\ IsValid(validation_result)
    /\ retval = "TMSL definition updated successfully"

-----------------------------------------------------------------------------
(* detect_model_type applied to a model *)

MaxPartitions == 2

\* the mode of a partition; "" is a partition without mode
ModeNames == {"import", "directLake", "dual", ""}

\* the partitions member of a table, by the modes of its partitions
ModeLists ==
    {NoMember}
        \cup UNION { { [present |-> TRUE,
                        value |-> JArr([i \in 1..n |-> Partition(f[i], FALSE, JNull)])] :
                       f \in [1..n -> ModeNames] } : n \in 0..MaxPartitions }

ModeTable(partitions, name) ==
    Table(name, FALSE, FALSE, partitions, GoodColumns, NoMember, FALSE)

InitDetect ==
    /\ \/ tmsl_definition = Text(BareModel(Model(FALSE, JNull, NoMember)))
       \/ \E n \in 0..MaxTables : \E f \in [1..n -> ModeLists] :
              tmsl_definition =
                  Text(BareModel(Model(TRUE, JArr([i \in 1..n |-> ModeTable(f[i], Names[i])]),
                                       NoMember)))
    /\ result = NoResult
    /\ pc = "call"
    /\ validate_only = FALSE
    /\ access_token = TRUE
    /\ connected = FALSE
    /\ validation_result = NoResult
    /\ final_tmsl = "none"
    /\ executed = 0
    /\ retval = "none"
    /\ OthersIdle

CallDetect ==
    /\ pc = "call"
    /\ result' = LET model_type == detect_model_type(tmsl_definition.value.o["model"])
                 IN  IF model_type = "raise" THEN Raised
                     ELSE [raised |-> FALSE, model_type |-> model_type]
    /\ pc' = "returned"
    /\ UNCHANGED <<tmsl_definition, validate_only, access_token, connected,
                   validation_result, final_tmsl, executed, retval, other_vars>>

NextDetect == CallDetect

SpecDetect == InitDetect /\ [][NextDetect]_vars

-----------------------------------------------------------------------------
(* Properties of the whole-model rules *)

HasNoPartitions(table) ==
    ~In("partitions", table) \/ table.o["partitions"] = JArr(<<>>)

\* C11: on the whole-model path, whatever the model type, a table whose
\* partitions array is missing or empty gets a warning naming the table, and no
\* error about its partitions.
C11_NoPartitionsWarned ==
    (ReturnedParsed /\ IsWholeModel(Payload)) =>
        \A table \in Range(ModelTables(PayloadModel(Payload))) :
            HasNoPartitions(table) =>
                /\ Mentions(result.warnings, <<TableName(table), <<"partitions">> >>)
                /\ ~Mentions(result.error, <<TableName(table), <<"partitions">> >>)

UnknownTypeWarning == <<"Could not determine model type - applying basic validation only">>

CarriesMode(table) == In("mode", table) \/ In("defaultMode", table)

\* C12: an Unknown model gets the warning that its type could not be determined,
\* and is valid unless one of its tables carries mode or defaultMode.
C12_UnknownOnlyCommonErrors ==
    Classified("unknown") =>
        /\ HasLine(result.warnings, UnknownTypeWarning)
        /\ (\A table \in Range(ModelTables(PayloadModel(Payload))) : ~CarriesMode(table))
              => result.valid

\* the partition objects of all tables
AllPartitions(model) ==
    UNION { Range(TablePartitions(table)) : table \in Range(ModelTables(model)) }

\* a directLake partition with everything the DirectLake rules ask for
IsFullDirectLake(partition) ==
    /\ Get(partition, "mode", JNull) = S("directLake")
    /\ In("source", partition)
    /\ IsObj(partition.o["source"])
    /\ In("entityName", partition.o["source"])
    /\ In("schemaName", partition.o["source"])
    /\ Get(partition.o["source"], "expressionSource", JNull) = S("DatabaseQuery")

\* a model with at least one partition, all of its partitions full directLake
\* ones, a DatabaseQuery of kind m that references the connector, and no table
\* with mode or defaultMode
WellFormedDirectLake(model) ==
    /\ AllPartitions(model) # {}
    /\ \A partition \in AllPartitions(model) : IsFullDirectLake(partition)
    /\ \E i \in 1..Len(DatabaseQueries(model)) : ~LacksConnector(DatabaseQueries(model)[i])
    /\ \A table \in Range(ModelTables(model)) : ~CarriesMode(table)

\* C13 as stated: a well-formed DirectLake model is valid and gets no warning at
\* all.
C13_WellFormedNoWarning ==
    (ReturnedParsed /\ IsWholeModel(Payload) /\ WellFormedDirectLake(PayloadModel(Payload))) =>
        result.valid /\ result.warnings = <<>>

\* C13: a well-formed DirectLake model is valid and gets no warning about
\* schemaName; it gets no warning at all when moreover every table has a
\* partition and every DatabaseQuery of kind m references the connector.
C13_WellFormedDirectLake ==
    (ReturnedParsed /\ IsWholeModel(Payload) /\ WellFormedDirectLake(PayloadModel(Payload))) =>
        LET model == PayloadModel(Payload) IN
        /\ result.valid
        /\ ~Mentions(result.warnings, << <<"schemaName">> >>)
        /\ ( /\ \A table \in Range(ModelTables(model)) : ~HasNoPartitions(table)
             /\ \A i \in 1..Len(DatabaseQueries(model)) : ~LacksConnector(DatabaseQueries(model)[i]) )
           => result.warnings = <<>>

C13_Witness ==
    /\ ReturnedParsed
    /\ IsWholeModel(Payload)
    /\ WellFormedDirectLake(PayloadModel(Payload))
    /\ Len(ModelTables(PayloadModel(Payload))) = 2
    /\ \A table \in Range(ModelTables(PayloadModel(Payload))) : ~HasNoPartitions(table)
    /\ result.valid
    /\ result.warnings = <<>>

-----------------------------------------------------------------------------
(* Properties of detect_model_type *)

Detected == pc = "returned" /\ ~result.raised /\ "model_type" \in DOMAIN result

\* the mode of a partition, null for a partition without mode
ModeOf(partition) == Get(partition, "mode", JNull)

\* the set of the modes of all partitions of the payload's model
PayloadModes == { ModeOf(partition) : partition \in AllPartitions(PayloadModel(Payload)) }

\* C14: a model with a partition, all partitions of mode import, is Import; a
\* model with an import and a directLake partition is Mixed, whatever else it has.
C14_ImportAndMixed ==
    Detected =>
        /\ PayloadModes = {S("import")} => result.model_type = "import"
        /\ {S("import"), S("directLake")} \subseteq PayloadModes => result.model_type = "mixed"

C14_Witness ==
    /\ Detected
    /\ {S("import"), S("directLake"), S("dual"), JNull} \subseteq PayloadModes
    /\ result.model_type = "mixed"

\* the decision table over the set of modes
DecisionTable(modes) ==
    IF modes = {} THEN "unknown"
    ELSE IF {S("import"), S("directLake")} \subseteq modes THEN "mixed"
    ELSE IF modes = {S("directLake")} THEN "directlake"
    ELSE IF modes = {S("import")} THEN "import"
    ELSE "unknown"

\* C15: detect_model_type gives what the decision table gives for the set of
\* the modes of all partitions.
C15_DecisionTable ==
    Detected => result.model_type = DecisionTable(PayloadModes)

-----------------------------------------------------------------------------
(* BPAService: the normalizer, _clean_tmsl_json and _format_tmsl_json           *)
(*                                                                             *)
(* A text is what it says and how it is written:                               *)
(*   form "json"     the JSON text of doc, written in layout                   *)
(*   form "literal"  a JSON string literal whose content is the text inner     *)
(*   form "escaped"  a JSON text whose quotes are written \", without quotes   *)
(*                   around it                                                 *)
(*   form "quoted"   a JSON text with a quote put before and after it          *)
(*   form "garbage"  a text that no cleaning step makes parse                  *)
(*   form "deep"     a text on which json.loads raises an exception that is    *)
(*                   not JSONDecodeError (RecursionError on deep nesting,      *)
(*                   ValueError on an integer literal of too many digits)      *)
(* layout is the order of the keys and the white space of a JSON text:         *)
(* "canonical" is what json.dumps writes with indent=2 and sort_keys=True,     *)
(* "compact" and "reordered" are two other texts of the same document that     *)
(* differ from each other in the order of the keys only. pad is white space    *)
(* before or after the text, crlf is \r\n line ends.                           *)

NNum(n) == [t |-> "num", n |-> n]

\* the str that json.loads makes of a literal
StrOf(inner) == [t |-> "str", inner |-> inner]

JsonText(doc, layout, pad, crlf) ==
    [form |-> "json", doc |-> doc, layout |-> layout, pad |-> pad, crlf |-> crlf]

LiteralText(inner, pad, crlf) ==
    [form |-> "literal", inner |-> inner, pad |-> pad, crlf |-> crlf]

\* json.loads(text): raises is "none", "JSONDecodeError" or "Exception"
Loads(text) ==
    CASE text.form = "json" -> [raises |-> "none", value |-> text.doc]
      [] text.form = "literal" -> [raises |-> "none", value |-> StrOf(text.inner)]
      [] text.form = "deep" -> [raises |-> "Exception", value |-> JNull]
      [] OTHER -> [raises |-> "JSONDecodeError", value |-> JNull]

\* json.dumps(value, indent=2, separators=(',', ': '), sort_keys=True, ensure_ascii=False)
Dumps(value) ==
    IF value.t = "str" /\ "inner" \in DOMAIN value
    THEN LiteralText(value.inner, FALSE, FALSE)
    ELSE JsonText(value, "canonical", FALSE, FALSE)

\* a text made of an inner JSON text: quotes put around it ("quoted"), or every
\* quote of it written \" and, when tail is TRUE, the two characters \n after
\* it ("escaped")
QuotedText(inner, pad, crlf) ==
    [form |-> "quoted", inner |-> inner, pad |-> pad, crlf |-> crlf]

EscapedText(inner, tail, pad, crlf) ==
    [form |-> "escaped", inner |-> inner, tail |-> tail, pad |-> pad, crlf |-> crlf]

\* lines 276-279: replace('\r\n', '\n').replace('\r', '\n') and strip()
Stripped(text) == [text EXCEPT !.pad = FALSE, !.crlf = FALSE]

\* lines 292-307: the outer quotes are cut off, \" becomes " and \n becomes a
\* line end; what was between the quotes, white space included, is kept
Unwrapped(cleaned) ==
    CASE cleaned.form = "quoted" -> cleaned.inner
      [] cleaned.form = "escaped" ->
            [cleaned.inner EXCEPT !.pad = cleaned.inner.pad \/ cleaned.tail]
      [] OTHER -> cleaned

\* the whole of _clean_tmsl_json; json.loads(cleaned) is guarded by
\* except json.JSONDecodeError only
clean_tmsl_json(tmsl_definition_) ==
    LET cleaned == Stripped(tmsl_definition_)
    IN  CASE Loads(cleaned).raises = "none" -> [raised |-> FALSE, text |-> cleaned]
          [] Loads(cleaned).raises = "Exception" -> Raised
          [] OTHER -> [raised |-> FALSE, text |-> Unwrapped(cleaned)]

(* Python truth and order, as list.sort and bool() use them *)

\* bool(v)
Truthy(v) ==
    CASE v.t = "null" -> FALSE
      [] v.t = "bool" -> v.b
      [] v.t = "num" -> v.n # 0
      [] v.t = "str" -> IF "inner" \in DOMAIN v THEN TRUE ELSE v.s # <<>>
      [] v.t = "arr" -> v.a # <<>>
      [] OTHER -> DOMAIN v.o # {}

\* the characters of the names, in the order of their code points
Chars == <<".", "0", "1", "A", "B", "a", "b", "c">>

Ord(c) == CHOOSE i \in 1..Len(Chars) : Chars[i] = c

\* s1 < s2 on str
RECURSIVE StrLt(_, _)
StrLt(s1, s2) ==
    IF s2 = <<>> THEN FALSE
    ELSE IF s1 = <<>> THEN TRUE
    ELSE IF Head(s1) = Head(s2) THEN StrLt(Tail(s1), Tail(s2))
    ELSE Ord(Head(s1)) < Ord(Head(s2))

\* a tuple, as a sort key
Tuple(a) == [t |-> "tuple", a |-> a]

IsNumber(v) == v.t \in {"num", "bool"}
NumberOf(v) == IF v.t = "bool" THEN (IF v.b THEN 1 ELSE 0) ELSE v.n

\* a == b
PyEq(a, b) == a = b \/ (IsNumber(a) /\ IsNumber(b) /\ NumberOf(a) = NumberOf(b))

\* a < b: "lt", "no", or "raise" for the TypeError of two values without an
\* order; lists and tuples compare their first pair of unequal elements
RECURSIVE Lt(_, _)
Lt(a, b) ==
    CASE a.t = "str" /\ b.t = "str" -> IF StrLt(a.s, b.s) THEN "lt" ELSE "no"
      [] IsNumber(a) /\ IsNumber(b) -> IF NumberOf(a) < NumberOf(b) THEN "lt" ELSE "no"
      [] a.t = b.t /\ a.t \in {"arr", "tuple"} ->
            LET diff == {i \in 1..Len(a.a) : i <= Len(b.a) /\ ~PyEq(a.a[i], b.a[i])}
            IN  IF diff = {} THEN (IF Len(a.a) < Len(b.a) THEN "lt" ELSE "no")
                ELSE LET i == CHOOSE j \in diff : \A l \in diff : j <= l
                     IN  Lt(a.a[i], b.a[i])
      [] OTHER -> "raise"

\* one step of the sort: x goes behind every element that is not greater
RECURSIVE InsertSorted(_, _)
InsertSorted(sorted, x) ==
    IF sorted = <<>> THEN <<x>>
    ELSE IF Lt(x.key, Head(sorted).key) = "lt" THEN <<x>> \o sorted
    ELSE <<Head(sorted)>> \o InsertSorted(Tail(sorted), x)

RECURSIVE SortedPairs(_)
SortedPairs(pairs) ==
    IF pairs = <<>> THEN <<>>
    ELSE InsertSorted(SortedPairs(SubSeq(pairs, 1, Len(pairs) - 1)), pairs[Len(pairs)])

\* the items of the sorted pairs
ItemsOf(sorted) == JArr([i \in 1..Len(sorted) |-> sorted[i].item])

\* list.sort(key=...): keys[i] is the key of items[i], or Raised when the key
\* function raises on it. The sort is stable; it raises when a key raises or
\* when it meets two keys that have no order.
SortByKeys(items, keys) ==
    IF \E i \in 1..Len(items) : keys[i].raised THEN Raised
    ELSE IF \E i, j \in 1..Len(items) : i < j /\ Lt(keys[i].key, keys[j].key) = "raise"
    THEN Raised
    ELSE [raised |-> FALSE,
          v |-> ItemsOf(SortedPairs([i \in 1..Len(items) |->
                                        [item |-> items[i], key |-> keys[i].key]]))]

\* lambda x: x.get('name', '')
NameKey(x) ==
    IF ~IsObj(x) THEN Raised ELSE [raised |-> FALSE, key |-> Get(x, "name", JStr(<<>>))]

\* column_sort_key
column_sort_key(col) ==
    IF ~IsObj(col) THEN Raised
    ELSE [raised |-> FALSE,
          key |-> Tuple(<<JBool(~Truthy(Get(col, "isKey", JBool(FALSE)))),
                          Get(col, "name", JStr(<<>>))>>)]

\* str(v) inside an f-string
PyStr(v) ==
    CASE v.t = "str" -> v.s
      [] v.t = "num" -> <<ToString(v.n)>>
      [] OTHER -> Repr(v)

\* lambda x: f"{x.get('fromTable', '')}.{x.get('fromColumn', '')}"
RelationshipKey(x) ==
    IF ~IsObj(x) THEN Raised
    ELSE [raised |-> FALSE,
          key |-> JStr(PyStr(Get(x, "fromTable", JStr(<<>>))) \o <<".">>
                       \o PyStr(Get(x, "fromColumn", JStr(<<>>))))]

\* list.sort(key=lambda x: x.get('name', ''))
SortByName(items) == SortByKeys(items, [i \in 1..Len(items) |-> NameKey(items[i])])

(* _standardize_column_structure ... _standardize_tmsl_model_structure *)

\* `k in v` followed by v[k], for some k of keys, on a value that is no dict:
\* TypeError when v has no `in`, or when it is a list or str that holds k
NoDictFault(v, keys) == ~CanIn(v) \/ (~IsObj(v) /\ \E k \in keys : In(k, v))

\* column[bool_prop] = bool(column[bool_prop]) for the props that are there
CoerceBools(o, props) ==
    [k \in DOMAIN o |-> IF k \in props THEN JBool(Truthy(o[k])) ELSE o[k]]

\* data_type.lower(), on the one-token strings of the model
Lower(tok) ==
    CASE tok \in {"string", "String", "STRING"} -> "string"
      [] tok \in {"int64", "Int64"} -> "int64"
      [] tok \in {"decimal", "Decimal"} -> "decimal"
      [] tok \in {"double", "Double"} -> "double"
      [] tok \in {"datetime", "DateTime", "dateTime"} -> "datetime"
      [] tok \in {"boolean", "Boolean"} -> "boolean"
      [] OTHER -> tok

\* data_type_map.get(data_type.lower(), data_type)
DataTypeMap(data_type) ==
    IF Len(data_type.s) # 1 THEN data_type
    ELSE CASE Lower(data_type.s[1]) = "string" -> S("String")
           [] Lower(data_type.s[1]) = "int64" -> S("Int64")
           [] Lower(data_type.s[1]) = "decimal" -> S("Decimal")
           [] Lower(data_type.s[1]) = "double" -> S("Double")
           [] Lower(data_type.s[1]) = "datetime" -> S("DateTime")
           [] Lower(data_type.s[1]) = "boolean" -> S("Boolean")
           [] OTHER -> data_type

ColumnBoolProps == {"isHidden", "isKey", "isNullable", "isUnique"}

standardize_column_structure(column) ==
    IF NoDictFault(column, ColumnBoolProps \cup {"dataType"}) THEN Raised
    ELSE IF ~IsObj(column) THEN [raised |-> FALSE, v |-> column]
    ELSE LET o1 == CoerceBools(column.o, ColumnBoolProps)
             o2 == IF "dataType" \in DOMAIN o1 /\ o1["dataType"].t = "str"
                   THEN [o1 EXCEPT !["dataType"] = DataTypeMap(@)]
                   ELSE o1
         IN  [raised |-> FALSE, v |-> JObj(o2)]

standardize_measure_structure(measure) ==
    IF NoDictFault(measure, {"isHidden", "formatString"}) THEN Raised
    ELSE IF ~IsObj(measure) THEN [raised |-> FALSE, v |-> measure]
    ELSE LET o1 == CoerceBools(measure.o, {"isHidden"})
             o2 == IF "formatString" \in DOMAIN o1 /\ ~Truthy(o1["formatString"])
                   THEN [k \in DOMAIN o1 \ {"formatString"} |-> o1[k]]
                   ELSE o1
         IN  [raised |-> FALSE, v |-> JObj(o2)]

\* `k in v and isinstance(v[k], list)` on a dict
HasList(v, k) == k \in DOMAIN v.o /\ v.o[k].t = "arr"

\* v[k] = the list that sorting made, when the sort did not raise
WithList(v, k, sorted) ==
    IF sorted.raised THEN Raised
    ELSE [raised |-> FALSE, v |-> JObj([v.o EXCEPT ![k] = sorted.v])]

\* a value on which nothing was raised
Ok(v) == [raised |-> FALSE, v |-> v]

\* the steps below take the outcome r of the step before them: what was raised
\* stays raised

\* line 438: std are the columns after _standardize_column_structure
SortedColumns(table, std) ==
    IF \E i \in 1..Len(std) : std[i].raised THEN Raised
    ELSE WithList(table, "columns",
                  SortByKeys([i \in 1..Len(std) |-> std[i].v],
                             [i \in 1..Len(std) |-> column_sort_key(std[i].v)]))

\* lines 428-438
StandardizeColumns(r) ==
    IF r.raised THEN Raised
    ELSE IF ~HasList(r.v, "columns") THEN r
    ELSE SortedColumns(r.v, [i \in 1..Len(r.v.o["columns"].a) |->
                                standardize_column_structure(r.v.o["columns"].a[i])])

\* line 446: std are the measures after _standardize_measure_structure
SortedMeasures(table, std) ==
    IF \E i \in 1..Len(std) : std[i].raised THEN Raised
    ELSE WithList(table, "measures", SortByName([i \in 1..Len(std) |-> std[i].v]))

\* lines 441-446
StandardizeMeasures(r) ==
    IF r.raised THEN Raised
    ELSE IF ~HasList(r.v, "measures") THEN r
    ELSE SortedMeasures(r.v, [i \in 1..Len(r.v.o["measures"].a) |->
                                 standardize_measure_structure(r.v.o["measures"].a[i])])

\* the keys of the elements of the list k
MemberKeys(list, k) ==
    [i \in 1..Len(list) |->
        IF k = "relationships" THEN RelationshipKey(list[i]) ELSE NameKey(list[i])]

\* lines 449-451, 454-456, 409-411 and 414-416: a list that is only sorted
SortMember(r, k) ==
    IF r.raised THEN Raised
    ELSE IF ~HasList(r.v, k) THEN r
    ELSE WithList(r.v, k, SortByKeys(r.v.o[k].a, MemberKeys(r.v.o[k].a, k)))

SortedMembers == {"columns", "measures", "partitions", "hierarchies"}

standardize_table_structure(table) ==
    IF NoDictFault(table, SortedMembers) THEN Raised
    ELSE IF ~IsObj(table) THEN Ok(table)
    ELSE SortMember(SortMember(StandardizeMeasures(StandardizeColumns(Ok(table))),
                               "partitions"),
                    "hierarchies")

\* line 406: std are the tables after _standardize_table_structure
SortedTables(model, std) ==
    IF \E i \in 1..Len(std) : std[i].raised THEN Raised
    ELSE WithList(model, "tables", SortByName([i \in 1..Len(std) |-> std[i].v]))

\* lines 401-406
StandardizeTables(r) ==
    IF r.raised THEN Raised
    ELSE IF ~HasList(r.v, "tables") THEN r
    ELSE SortedTables(r.v, [i \in 1..Len(r.v.o["tables"].a) |->
                               standardize_table_structure(r.v.o["tables"].a[i])])

\* lines 400-416, on the model object that was found
StandardizeModel(model) ==
    IF NoDictFault(model, {"tables", "relationships", "expressions"}) THEN Raised
    ELSE IF ~IsObj(model) THEN Ok(model)
    ELSE SortMember(SortMember(StandardizeTables(Ok(model)), "relationships"),
                    "expressions")

\* the member names and the str values that a JSON value is written with
RECURSIVE WordsOf(_)
WordsOf(v) ==
    CASE v.t = "obj" -> DOMAIN v.o \cup UNION {WordsOf(v.o[k]) : k \in DOMAIN v.o}
      [] v.t = "arr" -> UNION {WordsOf(v.a[i]) : i \in 1..Len(v.a)}
      [] v.t = "str" -> IF "inner" \in DOMAIN v THEN {} ELSE Range(v.s)
      [] OTHER -> {}

\* `k in s` on the str that a literal decodes to: k is a substring of the text
\* inside the literal ('create' is one of 'createOrReplace')
TextMentions(text, k) ==
    /\ text.form = "json"
    /\ \/ k \in WordsOf(text.doc)
       \/ k = "create" /\ "createOrReplace" \in WordsOf(text.doc)

\* `k in data` on the parsed text
DataIn(k, data) ==
    IF data.t = "str" /\ "inner" \in DOMAIN data THEN TextMentions(data.inner, k)
    ELSE In(k, data)

\* `k in data and 'database' in data[k] and 'model' in data[k]['database']`:
\* "found", "absent", or "raise" for the TypeError of `in` or [] on a value
\* that has none
ModelUnder(data, k) ==
    IF ~CanIn(data) THEN "raise"
    ELSE IF ~DataIn(k, data) THEN "absent"
    ELSE IF ~IsObj(data) THEN "raise"
    ELSE LET c == data.o[k] IN
         IF ~CanIn(c) THEN "raise"
         ELSE IF ~In("database", c) THEN "absent"
         ELSE IF ~IsObj(c) THEN "raise"
         ELSE LET d == c.o["database"] IN
              IF ~CanIn(d) THEN "raise"
              ELSE IF ~In("model", d) THEN "absent"
              ELSE IF ~IsObj(d) THEN "raise"
              ELSE "found"

\* lines 390-395: where the model is: under "create" or "createOrReplace", at
\* "model", nowhere ("none"), or "raise" for the TypeError on the way
ModelPlace(tmsl_data) ==
    IF ModelUnder(tmsl_data, "create") # "absent" THEN
        (IF ModelUnder(tmsl_data, "create") = "found" THEN "create" ELSE "raise")
    ELSE IF DataIn("model", tmsl_data) THEN
        (IF IsObj(tmsl_data) THEN "model" ELSE "raise")
    ELSE IF ModelUnder(tmsl_data, "createOrReplace") = "found" THEN "createOrReplace"
    ELSE IF ModelUnder(tmsl_data, "createOrReplace") = "raise" THEN "raise"
    ELSE "none"

\* the model at the place
ModelAt(tmsl_data, place) ==
    IF place = "model" THEN tmsl_data.o["model"]
    ELSE tmsl_data.o[place].o["database"].o["model"]

\* the data with the model at the place replaced (it is modified in place)
WithModelAt(tmsl_data, place, model) ==
    IF place = "model" THEN JObj([tmsl_data.o EXCEPT !["model"] = model])
    ELSE JObj([tmsl_data.o EXCEPT ![place] =
            JObj([@.o EXCEPT !["database"] = JObj([@.o EXCEPT !["model"] = model])])])

\* lines 397-416, for the model that was found
Standardized(model) ==
    IF ~Truthy(model) THEN Ok(model) ELSE StandardizeModel(model)

\* line 418: the data with the standardized model m, unless that raised
Returning(tmsl_data, place, m) ==
    IF m.raised THEN Raised ELSE Ok(WithModelAt(tmsl_data, place, m.v))

StandardizeAt(tmsl_data, place) ==
    IF place = "raise" THEN Raised
    ELSE IF place = "none" THEN Ok(tmsl_data)
    ELSE Returning(tmsl_data, place, Standardized(ModelAt(tmsl_data, place)))

\* lines 388-418
standardize_tmsl_model_structure(tmsl_data) ==
    StandardizeAt(tmsl_data, ModelPlace(tmsl_data))

\* copy.deepcopy and _standardize_tmsl_model_structure
tidy_tmsl_structure(tmsl_data) == standardize_tmsl_model_structure(tmsl_data)

\* lines 334-351: the dump of the tidied data, or the text that was given when
\* the tidying raised
DumpedOr(tmsl_json, formatted_data) ==
    IF formatted_data.raised THEN tmsl_json ELSE Dumps(formatted_data.v)

\* _format_tmsl_json: the text it was given comes back when json.loads or the
\* tidying raises anything
format_tmsl_json(tmsl_json) ==
    IF Loads(tmsl_json).raises # "none" THEN tmsl_json
    ELSE DumpedOr(tmsl_json, tidy_tmsl_structure(Loads(tmsl_json).value))

\* line 49, after line 46
FormatCleaned(cleaned) ==
    IF cleaned.raised THEN Raised
    ELSE [raised |-> FALSE, text |-> format_tmsl_json(cleaned.text)]

\* analyze_model_from_tmsl, lines 46-49: clean, then format
Normalize(text) == FormatCleaned(clean_tmsl_json(text))

-----------------------------------------------------------------------------
(* The texts the normalizer is called with *)

Given(v) == [present |-> TRUE, value |-> v]

\* the lists of at most two of the given items
ListsOf(items) ==
    {<<>>} \cup {<<x>> : x \in items} \cup {<<x, y>> : x \in items, y \in items}

NameChoices ==
    {NoMember, Given(S("a")), Given(S("b")), Given(S("B")), Given(NNum(1)), Given(JNull)}

\* a table, partition, hierarchy or expression: a name and a description
Item(name, described) ==
    JObj(Opt(name.present, "name", name.value) @@ Opt(described, "description", S("c")))

Items_ == {Item(name, described) : name \in NameChoices, described \in BOOLEAN}

ItemLists == ListsOf(Items_) \cup {<<NNum(1)>>, <<S("name"), Item(Given(S("a")), FALSE)>>}

ColumnItem(name, isKey, dataType) ==
    JObj(Opt(name.present, "name", name.value) @@ Opt(isKey.present, "isKey", isKey.value)
         @@ Opt(dataType.present, "dataType", dataType.value))

ColumnItems ==
    {ColumnItem(name, isKey, dataType) :
        name \in {NoMember, Given(S("a")), Given(S("b")), Given(NNum(1))},
        isKey \in {NoMember, Given(JBool(TRUE)), Given(NNum(0))},
        dataType \in {NoMember, Given(S("string")), Given(S("text"))}}

MeasureItem(name, formatString, isHidden) ==
    JObj(Opt(name.present, "name", name.value)
         @@ Opt(formatString.present, "formatString", formatString.value)
         @@ Opt(isHidden.present, "isHidden", isHidden.value))

MeasureItems ==
    {MeasureItem(name, formatString, isHidden) :
        name \in {NoMember, Given(S("a")), Given(S("b"))},
        formatString \in {NoMember, Given(JStr(<<>>)), Given(S("0"))},
        isHidden \in {NoMember, Given(NNum(1))}}

RelationshipItem(fromTable, fromColumn) ==
    JObj(Opt(fromTable.present, "fromTable", fromTable.value)
         @@ Opt(fromColumn.present, "fromColumn", fromColumn.value))

RelationshipItems ==
    {RelationshipItem(fromTable, fromColumn) :
        fromTable \in {NoMember, Given(S("a")), Given(S("b"))},
        fromColumn \in {NoMember, Given(S("a")), Given(NNum(1))}}

\* a model with one list member
ModelWith(k, list) == JObj(Field(k, JArr(list)))

\* a model with one table, which has one list member
TableWith(k, list) == JObj(Field("name", S("a")) @@ Field(k, JArr(list)))

\* models whose tables are not looked into, and models that are no dict
CoreNormModels ==
    {ModelWith("tables", list) : list \in ItemLists}
        \cup {EmptyObj, NNum(0), NNum(1), S("a"), JArr(<<S("tables")>>), JArr(<<S("a")>>),
              JObj(Field("tables", NNum(1)))}

MemberModels ==
    {ModelWith("tables", <<TableWith("columns", list)>>) : list \in ListsOf(ColumnItems)}
        \cup {ModelWith("tables", <<TableWith("measures", list)>>) :
                list \in ListsOf(MeasureItems)}
        \cup {ModelWith("tables", <<TableWith(k, list)>>) :
                k \in {"partitions", "hierarchies"}, list \in ItemLists}
        \cup {ModelWith("relationships", list) : list \in ListsOf(RelationshipItems)}
        \cup {ModelWith("expressions", list) : list \in ItemLists}

\* the three places of a model, the single-table envelope, and other data
CreateEnvelope(model) ==
    JObj(Field("create", JObj(Field("database",
            JObj(Field("name", S("db")) @@ Field("model", model))))))

ReplaceEnvelope(model) ==
    JObj(Field("createOrReplace", JObj(Field("object", JObj(Field("database", S("db"))))
            @@ Field("database", JObj(Field("name", S("db")) @@ Field("model", model))))))

ReplaceTable(table) ==
    JObj(Field("createOrReplace", JObj(Field("object", JObj(Field("table", S("a"))))
            @@ Field("table", table))))

OtherData ==
    {JArr(<<S("model")>>), JArr(<<>>), NNum(1), JObj(Field("create", NNum(1))),
     JObj(Field("createOrReplace", JArr(<<S("database")>>)))}
        \cup {ReplaceTable(TableWith("columns", list)) :
                list \in ListsOf({ColumnItem(Given(S(n)), NoMember, Given(S("string"))) :
                                    n \in {"a", "b"}})}

CoreData ==
    {CreateEnvelope(m) : m \in CoreNormModels} \cup {BareModel(m) : m \in CoreNormModels}
        \cup {ReplaceEnvelope(m) : m \in CoreNormModels} \cup OtherData

Layouts == {"compact", "reordered", "canonical"}

\* some dict of the document has two keys: only then is there a text of it
\* with the keys in another order
RECURSIVE HasKeyOrder(_)
HasKeyOrder(v) ==
    CASE v.t = "obj" -> \/ Cardinality(DOMAIN v.o) > 1
                        \/ \E k \in DOMAIN v.o : HasKeyOrder(v.o[k])
      [] v.t = "arr" -> \E i \in 1..Len(v.a) : HasKeyOrder(v.a[i])
      [] OTHER -> FALSE

\* the text of the document has a quote in it: only then is the text with
\* quotes around it, or with its quotes escaped, a text that does not parse
HasQuotes(doc) == WordsOf(doc) # {}

\* every way of writing a document
WaysOf(doc) ==
    {JsonText(doc, layout, pad, crlf) :
        layout \in {l \in Layouts : l = "reordered" => HasKeyOrder(doc)},
        pad \in BOOLEAN, crlf \in BOOLEAN}
        \cup {LiteralText(JsonText(doc, "compact", FALSE, FALSE), FALSE, FALSE)}
        \cup {QuotedText(JsonText(doc, "compact", pad, FALSE), FALSE, FALSE) :
                pad \in {p \in BOOLEAN : HasQuotes(doc)}}
        \cup {EscapedText(JsonText(doc, "compact", FALSE, FALSE), tail, FALSE, FALSE) :
                tail \in {t \in BOOLEAN : HasQuotes(doc)}}

\* some ways of writing a document
SomeWaysOf(doc) ==
    {JsonText(doc, "compact", FALSE, FALSE), JsonText(doc, "reordered", FALSE, FALSE),
     QuotedText(JsonText(doc, "compact", TRUE, FALSE), FALSE, FALSE)}

GarbageText(pad) == [form |-> "garbage", pad |-> pad, crlf |-> FALSE]
DeepText(pad) == [form |-> "deep", pad |-> pad, crlf |-> FALSE]

-----------------------------------------------------------------------------
(* The normalizer, called on a text and then called again on what it returned *)

MaxRounds == 1

InitNormalize ==
    /\ \/ \E doc \in CoreData : raw \in WaysOf(doc)
       \/ \E m \in MemberModels : raw \in SomeWaysOf(BareModel(m))
       \/ \E pad \in BOOLEAN : raw \in {GarbageText(pad), DeepText(pad)}
    /\ normalized = NoResult
    /\ rounds = 0
    /\ ServiceIdle
    /\ RestIdle
    /\ tmsl_definition = InvalidText
    /\ result = NoResult
    /\ pc = "idle"
    /\ validate_only = FALSE
    /\ access_token = TRUE
    /\ connected = FALSE
    /\ validation_result = NoResult
    /\ final_tmsl = "none"
    /\ executed = 0
    /\ retval = "none"

\* cleaned_tmsl = self._clean_tmsl_json(raw); self._format_tmsl_json(cleaned_tmsl)
CallNormalize ==
    /\ raw # NoText
    /\ normalized = NoResult
    /\ normalized' = Normalize(raw)
    /\ UNCHANGED <<tmsl_definition, result, pc, validate_only, access_token, connected,
                   validation_result, final_tmsl, executed, retval, raw, rounds, service_vars,
                   rest_vars>>

\* the text that came back is normalized again
Feed ==
    /\ normalized # NoResult
    /\ ~normalized.raised
    /\ rounds < MaxRounds
    /\ raw' = normalized.text
    /\ normalized' = NoResult
    /\ rounds' = rounds + 1
    /\ UNCHANGED <<tmsl_definition, result, pc, validate_only, access_token, connected,
                   validation_result, final_tmsl, executed, retval, service_vars, rest_vars>>

NextNormalize == CallNormalize \/ Feed

SpecNormalize == InitNormalize /\ [][NextNormalize]_vars

-----------------------------------------------------------------------------
(* Claims about the normalizer *)

\* the normalizer was called on raw and has returned or raised
NormalizeDone == normalized # NoResult

\* C16: normalizing is idempotent: when the text that the normalizer returned
\* parses as JSON, normalizing that text again returns it unchanged.
C16_Idempotent ==
    (rounds = 1 /\ NormalizeDone /\ Loads(raw).raises = "none")
        => (~normalized.raised /\ normalized.text = raw)

\* the same document with every array in the opposite order
RECURSIVE ReversedArrays(_)
ReversedArrays(v) ==
    CASE v.t = "obj" -> JObj([k \in DOMAIN v.o |-> ReversedArrays(v.o[k])])
      [] v.t = "arr" ->
            JArr([i \in 1..Len(v.a) |-> ReversedArrays(v.a[Len(v.a) + 1 - i])])
      [] OTHER -> v

\* texts that differ from text in the order of the keys or of the array elements
Reorderings(text) ==
    IF text.form # "json" THEN {}
    ELSE {[text EXCEPT !.doc = ReversedArrays(@)]}
            \cup (IF ~HasKeyOrder(text.doc) THEN {}
                  ELSE IF text.layout = "compact" THEN {[text EXCEPT !.layout = "reordered"]}
                  ELSE IF text.layout = "reordered" THEN {[text EXCEPT !.layout = "compact"]}
                  ELSE {})

\* C17: normalizing is order-insensitive: a JSON text and the same text with
\* its keys or its array elements in another order normalize to the same output.
C17_OrderInsensitive ==
    (rounds = 0 /\ NormalizeDone)
        => \A other \in Reorderings(raw) : Normalize(other) = normalized

\* C18: the normalizer never raises: on every input text it returns a text.
C18_NormalizerNeverRaises == NormalizeDone => ~normalized.raised

-----------------------------------------------------------------------------
(* BPAService and the MCP tools that call it. BPAAnalyzer is not part of the    *)
(* sources at hand: the analyzer below has what the service uses of it, a list  *)
(* of rules that is loaded at construction, and the violations of the last      *)
(* analysis, which the filters and the summary read.                            *)

Severities == {"INFO", "WARNING", "ERROR"}
Categories == {"Performance", "Naming Conventions"}

Violation(severity, category) == [severity |-> severity, category |-> category]
Violations == {Violation(severity, category) : severity \in Severities, category \in Categories}

\* what analyzer.analyze_model can find
ViolationLists ==
    {<<>>,
     <<Violation("ERROR", "Performance")>>,
     <<Violation("INFO", "Naming Conventions")>>,
     <<Violation("ERROR", "Performance"), Violation("WARNING", "Naming Conventions")>>,
     <<Violation("ERROR", "Naming Conventions"), Violation("ERROR", "Performance")>>}

\* the rules of bpa.json
Rules == <<[category |-> "Performance", severity |-> "ERROR"],
           [category |-> "Naming Conventions", severity |-> "INFO"]>>

\* BPAAnalyzer(rules_file)
BPAAnalyzer == [none |-> FALSE, rules |-> Rules, violations |-> <<>>]
None == [none |-> TRUE]

analyzer_get_violations_by_severity(analyzer, severity) ==
    SelectSeq(analyzer.violations, LAMBDA v : v.severity = severity)

analyzer_get_violations_by_category(analyzer, category) ==
    SelectSeq(analyzer.violations, LAMBDA v : v.category = category)

\* the number of violations of each severity
analyzer_get_violations_summary(analyzer) ==
    [severity \in Severities |->
        Len(analyzer_get_violations_by_severity(analyzer, severity))]

\* BPAService.__init__: exists is os.path.exists(self.rules_file)
BPAService(exists) ==
    [constructed |-> TRUE, analyzer |-> IF exists THEN BPAAnalyzer ELSE None]

EmptyDict == [k \in {} |-> 0]

\* the three error results of analyze_model_from_tmsl
ErrorResult(error) == [error |-> error, violations |-> <<>>, summary |-> EmptyDict]

\* what the three calls on the analyzer may do: return with the violations
\* found, or raise with the violations collected that far
AnalyzerOutcomes ==
    {[raised |-> r, violations |-> l] : r \in BOOLEAN, l \in ViolationLists}

\* lines 45-83 without the handler of line 77: what the analyzer raises escapes
AnalyzeFormattedUncaught(self, formatted_tmsl, found) ==
    IF formatted_tmsl.raised
    THEN [raised |-> FALSE, value |-> ErrorResult("Analysis failed"),
          analyzer |-> self.analyzer]
    ELSE IF Loads(formatted_tmsl.text).raises = "JSONDecodeError"
    THEN [raised |-> FALSE, value |-> ErrorResult("Invalid TMSL JSON"),
          analyzer |-> self.analyzer]
    ELSE IF Loads(formatted_tmsl.text).raises = "Exception"
    THEN [raised |-> FALSE, value |-> ErrorResult("Analysis failed"),
          analyzer |-> self.analyzer]
    ELSE IF found.raised
    THEN [raised |-> TRUE,
          analyzer |-> [self.analyzer EXCEPT !.violations = found.violations]]
    ELSE [raised |-> FALSE,
          value |-> [success |-> TRUE, violations |-> found.violations,
                     summary |-> analyzer_get_violations_summary(
                                    [self.analyzer EXCEPT !.violations = found.violations]),
                     rules_count |-> Len(self.analyzer.rules),
                     analysis_complete |-> TRUE],
          analyzer |-> [self.analyzer EXCEPT !.violations = found.violations]]

\* lines 45-83 with an analysis in which a rule was skipped taken for a failed one
AnalyzeFormattedStrict(self, formatted_tmsl, found) ==
    IF formatted_tmsl.raised
    THEN [raised |-> FALSE, value |-> ErrorResult("Analysis failed"),
          analyzer |-> self.analyzer]
    ELSE IF Loads(formatted_tmsl.text).raises = "JSONDecodeError"
    THEN [raised |-> FALSE, value |-> ErrorResult("Invalid TMSL JSON"),
          analyzer |-> self.analyzer]
    ELSE IF Loads(formatted_tmsl.text).raises = "Exception"
    THEN [raised |-> FALSE, value |-> ErrorResult("Analysis failed"),
          analyzer |-> self.analyzer]
    ELSE IF found.raised \/ ("skipped" \in DOMAIN found /\ found.skipped > 0)
    THEN [raised |-> FALSE, value |-> ErrorResult("Analysis failed"),
          analyzer |-> [self.analyzer EXCEPT !.violations = found.violations]]
    ELSE [raised |-> FALSE,
          value |-> [success |-> TRUE, violations |-> found.violations,
                     summary |-> analyzer_get_violations_summary(
                                    [self.analyzer EXCEPT !.violations = found.violations]),
                     rules_count |-> Len(self.analyzer.rules),
                     analysis_complete |-> TRUE],
          analyzer |-> [self.analyzer EXCEPT !.violations = found.violations]]

\* lines 45-83: formatted_tmsl is what the normalizer returned or raised, found
\* is what the calls on the analyzer do with the model
AnalyzeFormatted(self, formatted_tmsl, found) ==
    IF formatted_tmsl.raised
    THEN [raised |-> FALSE, value |-> ErrorResult("Analysis failed"),
          analyzer |-> self.analyzer]
    ELSE IF Loads(formatted_tmsl.text).raises = "JSONDecodeError"
    THEN [raised |-> FALSE, value |-> ErrorResult("Invalid TMSL JSON"),
          analyzer |-> self.analyzer]
    ELSE IF Loads(formatted_tmsl.text).raises = "Exception"
    THEN [raised |-> FALSE, value |-> ErrorResult("Analysis failed"),
          analyzer |-> self.analyzer]
    ELSE IF found.raised
    THEN [raised |-> FALSE, value |-> ErrorResult("Analysis failed"),
          analyzer |-> [self.analyzer EXCEPT !.violations = found.violations]]
    ELSE [raised |-> FALSE,
          value |-> [success |-> TRUE, violations |-> found.violations,
                     summary |-> analyzer_get_violations_summary(
                                    [self.analyzer EXCEPT !.violations = found.violations]),
                     rules_count |-> Len(self.analyzer.rules),
                     analysis_complete |-> TRUE],
          analyzer |-> [self.analyzer EXCEPT !.violations = found.violations]]

\* analyze_model_from_tmsl: the result and the analyzer after the call
analyze_model_from_tmsl(self, tmsl_definition_, found) ==
    IF self.analyzer.none
    THEN [raised |-> FALSE,
          value |-> ErrorResult("BPA rules not loaded. Please check if bpa.json exists."),
          analyzer |-> self.analyzer]
    ELSE AnalyzeFormatted(self, Normalize(tmsl_definition_), found)

\* severity_name.upper()
Upper(severity_name) ==
    CASE severity_name \in {"error", "Error", "ERROR"} -> "ERROR"
      [] severity_name \in {"warning", "WARNING"} -> "WARNING"
      [] severity_name \in {"info", "INFO"} -> "INFO"
      [] OTHER -> severity_name

\* with the guard `if not self.analyzer` left out, the call on None raises
get_violations_by_severity_unguarded(self, severity_name) ==
    IF self.analyzer.none THEN Raised
    ELSE IF Upper(severity_name) \notin Severities THEN [raised |-> FALSE, value |-> <<>>]
    ELSE [raised |-> FALSE,
          value |-> analyzer_get_violations_by_severity(self.analyzer, Upper(severity_name))]

get_violations_by_severity(self, severity_name) ==
    IF self.analyzer.none THEN [raised |-> FALSE, value |-> <<>>]
    ELSE IF Upper(severity_name) \notin Severities THEN [raised |-> FALSE, value |-> <<>>]
    ELSE [raised |-> FALSE,
          value |-> analyzer_get_violations_by_severity(self.analyzer, Upper(severity_name))]

get_violations_by_category(self, category) ==
    IF self.analyzer.none THEN [raised |-> FALSE, value |-> <<>>]
    ELSE [raised |-> FALSE,
          value |-> analyzer_get_violations_by_category(self.analyzer, category)]

\* sorted(list(categories)): the categories as a set
get_available_categories(self) ==
    IF self.analyzer.none THEN [raised |-> FALSE, value |-> {}]
    ELSE [raised |-> FALSE,
          value |-> {self.analyzer.rules[i].category : i \in 1..Len(self.analyzer.rules)}]

\* how many rules have the value v in the field f
RuleCount(rules, f, v) == Cardinality({i \in 1..Len(rules) : rules[i][f] = v})

get_rules_summary(self) ==
    IF self.analyzer.none
    THEN [raised |-> FALSE,
          value |-> [error |-> "BPA rules not loaded", total_rules |-> 0,
                     categories |-> <<>>, severities |-> <<>>]]
    ELSE LET rules == self.analyzer.rules IN
         [raised |-> FALSE,
          value |-> [total_rules |-> Len(rules),
                     categories |-> [c \in {rules[i].category : i \in 1..Len(rules)} |->
                                        RuleCount(rules, "category", c)],
                     severities |-> [v \in {rules[i].severity : i \in 1..Len(rules)} |->
                                        RuleCount(rules, "severity", v)],
                     rules_file |-> "core/bpa.json"]]

-----------------------------------------------------------------------------
(* The calls on one BPAService object, and the MCP tools, each of which makes   *)
(* a BPAService of its own *)

\* the texts handed to the analysis
AnalysisTexts ==
    {JsonText(BareModel(ModelWith("tables", <<Item(Given(S("a")), FALSE)>>)),
              "compact", FALSE, FALSE),
     GarbageText(FALSE), DeepText(FALSE)}

SeverityNames == {"ERROR", "error", "WARNING", "critical"}

Reply(op, channel, r) ==
    IF r.raised THEN [op |-> op, channel |-> channel, raised |-> TRUE]
    ELSE [op |-> op, channel |-> channel, raised |-> FALSE, value |-> r.value]

InitService ==
    /\ catalog \in BOOLEAN
    /\ service = NoService
    /\ reply = NoReply
    /\ previous = NoReply
    /\ NormalizerIdle
    /\ RestIdle
    /\ tmsl_definition = InvalidText
    /\ result = NoResult
    /\ pc = "idle"
    /\ validate_only = FALSE
    /\ access_token = TRUE
    /\ connected = FALSE
    /\ validation_result = NoResult
    /\ final_tmsl = "none"
    /\ executed = 0
    /\ retval = "none"

\* what no call on the service changes
ServiceFrame ==
    UNCHANGED <<tmsl_definition, result, pc, validate_only, access_token, connected,
                validation_result, final_tmsl, executed, retval, raw, normalized, rounds,
                rest_vars>>

\* the rule catalog is put on the disk or taken from it
CatalogChange ==
    /\ catalog' = ~catalog
    /\ UNCHANGED <<service, reply, previous>>
    /\ ServiceFrame

\* bpa_service = BPAService(server_directory)
Construct ==
    /\ service' = BPAService(catalog)
    /\ reply' = [op |-> "__init__", channel |-> "service"]
    /\ previous' = reply
    /\ UNCHANGED catalog
    /\ ServiceFrame

CallAnalyze ==
    /\ service.constructed
    /\ \E text \in AnalysisTexts, found \in AnalyzerOutcomes :
          LET r == analyze_model_from_tmsl(service, text, found) IN
          /\ service' = [service EXCEPT !.analyzer = r.analyzer]
          /\ reply' = Reply("analyze_model_from_tmsl", "service", r)
                          @@ [text |-> text, analyzer_raised |-> found.raised]
    /\ previous' = reply
    /\ UNCHANGED catalog
    /\ ServiceFrame

CallGetBySeverity ==
    /\ service.constructed
    /\ \E severity_name \in SeverityNames :
          reply' = Reply("get_violations_by_severity", "service",
                         get_violations_by_severity(service, severity_name))
                      @@ [severity |-> severity_name]
    /\ previous' = reply
    /\ UNCHANGED <<catalog, service>>
    /\ ServiceFrame

CallGetByCategory ==
    /\ service.constructed
    /\ \E category \in Categories \cup {"Formatting"} :
          reply' = Reply("get_violations_by_category", "service",
                         get_violations_by_category(service, category))
    /\ previous' = reply
    /\ UNCHANGED <<catalog, service>>
    /\ ServiceFrame

CallGetAvailableCategories ==
    /\ service.constructed
    /\ reply' = Reply("get_available_categories", "service", get_available_categories(service))
    /\ previous' = reply
    /\ UNCHANGED <<catalog, service>>
    /\ ServiceFrame

CallGetRulesSummary ==
    /\ service.constructed
    /\ reply' = Reply("get_rules_summary", "service", get_rules_summary(service))
    /\ previous' = reply
    /\ UNCHANGED <<catalog, service>>
    /\ ServiceFrame

\* the tool analyze_tmsl_bpa: a BPAService is made, called and dropped
ToolAnalyzeTmslBpa ==
    /\ \E text \in AnalysisTexts, found \in AnalyzerOutcomes :
          LET bpa_service == BPAService(catalog)
              r == analyze_model_from_tmsl(bpa_service, text, found)
          IN  reply' = [op |-> "analyze_tmsl_bpa", channel |-> "tools",
                        raised |-> FALSE,
                        value |-> IF r.raised
                                  THEN [success |-> FALSE,
                                        error |-> "TMSL BPA analysis failed",
                                        error_type |-> "tmsl_bpa_analysis_error"]
                                  ELSE r.value]
    /\ previous' = reply
    /\ UNCHANGED <<catalog, service>>
    /\ ServiceFrame

\* the tool get_bpa_violations_by_severity: a BPAService is made, asked and dropped
ToolGetBpaViolationsBySeverity ==
    /\ \E severity \in SeverityNames :
          LET bpa_service == BPAService(catalog)
              violations == get_violations_by_severity(bpa_service, severity)
          IN  reply' = [op |-> "get_bpa_violations_by_severity", channel |-> "tools",
                        raised |-> FALSE, severity |-> severity,
                        value |-> IF violations.raised
                                  THEN [success |-> FALSE,
                                        error |-> "Error filtering BPA violations by severity",
                                        error_type |-> "bpa_filter_error"]
                                  ELSE [success |-> TRUE, severity_filter |-> severity,
                                        violation_count |-> Len(violations.value),
                                        violations |-> violations.value]]
    /\ previous' = reply
    /\ UNCHANGED <<catalog, service>>
    /\ ServiceFrame

NextService ==
    \/ CatalogChange
    \/ Construct
    \/ CallAnalyze
    \/ CallGetBySeverity
    \/ CallGetByCategory
    \/ CallGetAvailableCategories
    \/ CallGetRulesSummary
    \/ ToolAnalyzeTmslBpa
    \/ ToolGetBpaViolationsBySeverity

SpecService == InitService /\ [][NextService]_vars

-----------------------------------------------------------------------------
(* Claims about the service *)

\* the service object has no analyzer: it was constructed without the catalog
IsDisabled(self) == self.constructed /\ self.analyzer.none

\* what a disabled service answers to a call
DisabledReply(r) ==
    CASE r.op = "analyze_model_from_tmsl" ->
            /\ ~r.raised
            /\ "error" \in DOMAIN r.value
            /\ r.value.violations = <<>>
            /\ r.value.summary = EmptyDict
      [] r.op \in {"get_violations_by_severity", "get_violations_by_category"} ->
            ~r.raised /\ r.value = <<>>
      [] r.op = "get_available_categories" -> ~r.raised /\ r.value = {}
      [] r.op = "get_rules_summary" ->
            ~r.raised /\ "error" \in DOMAIN r.value /\ r.value.total_rules = 0
      [] OTHER -> FALSE

\* C19: a BPAService constructed while the rule catalog is absent is disabled
\* and stays so: every later call on it returns the disabled answer (an error
\* result without violations and summary, an empty list, a rules summary with
\* an error and no rules), raises nothing, and leaves it disabled.
C19_DisabledForLife ==
    [][ /\ Construct /\ ~catalog => IsDisabled(service')
        /\ IsDisabled(service) /\ ~Construct
              => /\ IsDisabled(service')
                 /\ (reply'.op \notin {"none", "__init__"} /\ reply'.channel = "service")
                        => DisabledReply(reply') ]_vars

\* a service that was constructed without the catalog has answered an analysis
\* while the catalog is on the disk
C19_Witness ==
    /\ IsDisabled(service)
    /\ catalog
    /\ reply.op = "analyze_model_from_tmsl"
    /\ previous.op = "get_violations_by_severity"

\* the number of violations in the answer to a get-by-severity request
CountOf(r) == IF r.channel = "service" THEN Len(r.value) ELSE r.value.violation_count

\* r is the result of an analysis that was run
IsAnalysis(r) ==
    /\ r.op \in {"analyze_model_from_tmsl", "analyze_tmsl_bpa"}
    /\ "success" \in DOMAIN r.value

\* C20: a get-by-severity('ERROR') request that follows an analysis, on the
\* service or through the MCP tools, returns as many violations as the ERROR
\* count in the summary of that analysis.
C20_SeverityCount ==
    ( /\ reply.op \in {"get_violations_by_severity", "get_bpa_violations_by_severity"}
      /\ reply.severity = "ERROR"
      /\ IsAnalysis(previous)
      /\ previous.channel = reply.channel )
        => /\ ~reply.raised
           /\ reply.channel = "tools" => reply.value.success
           /\ CountOf(reply) = previous.value.summary["ERROR"]

-----------------------------------------------------------------------------
(* More claims about the normalizer *)

\* C25: a JSON string literal whose content is a JSON document normalizes to
\* what that document normalizes to: the literal is decoded.
C25_LiteralDecoded ==
    (rounds = 0 /\ NormalizeDone /\ raw.form = "literal" /\ IsObj(raw.inner.doc))
        => normalized = Normalize(raw.inner)

\* the dicts of a list
DictsOf(v, k) == IF IsObj(v) /\ HasList(v, k) THEN SelectSeq(v.o[k].a, IsObj) ELSE <<>>

\* the model of a document, in one of its three places, or the document itself
DocModel(doc) ==
    IF ~IsObj(doc) THEN doc
    ELSE IF ModelPlace(doc) \in {"create", "model", "createOrReplace"}
    THEN ModelAt(doc, ModelPlace(doc))
    ELSE doc

\* the tables of a document: those of its model, or the one table of a
\* single-table createOrReplace
DocTables(doc) ==
    IF /\ IsObj(doc) /\ "createOrReplace" \in DOMAIN doc.o
       /\ IsObj(doc.o["createOrReplace"]) /\ "table" \in DOMAIN doc.o["createOrReplace"].o
       /\ IsObj(doc.o["createOrReplace"].o["table"])
    THEN <<doc.o["createOrReplace"].o["table"]>>
    ELSE DictsOf(DocModel(doc), "tables")

\* no element of the list has a key below that of an element before it
InOrder(keys) ==
    \A i, j \in 1..Len(keys) : i < j => Lt(keys[j].key, keys[i].key) # "lt"

NamesInOrder(list) == InOrder([i \in 1..Len(list) |-> NameKey(list[i])])

ColumnsInOrder(list) == InOrder([i \in 1..Len(list) |-> column_sort_key(list[i])])

CanonicalOrder(doc) ==
    /\ NamesInOrder(DocTables(doc))
    /\ \A i \in 1..Len(DocTables(doc)) :
          /\ ColumnsInOrder(DictsOf(DocTables(doc)[i], "columns"))
          /\ NamesInOrder(DictsOf(DocTables(doc)[i], "measures"))
          /\ NamesInOrder(DictsOf(DocTables(doc)[i], "partitions"))

\* C26: when the input parses, the output has its tables in the order of their
\* names, and in every table the key columns before the others, the columns of
\* each group, the measures and the partitions in the order of their names.
C26_CanonicalOrder ==
    (rounds = 0 /\ NormalizeDone /\ raw.form = "json")
        => /\ ~normalized.raised
           /\ Loads(normalized.text).raises = "none"
           /\ CanonicalOrder(Loads(normalized.text).value)


-----------------------------------------------------------------------------
(* More claims about the validator *)

\* the partitions of one mode of a table that have a source object
TableSourcesOfMode(table, mode) ==
    { p.o["source"] : p \in { q \in Range(TablePartitions(table)) :
                                /\ Get(q, "mode", JNull) = S(mode)
                                /\ In("source", q)
                                /\ IsObj(q.o["source"]) } }

SingleTablePayload ==
    /\ ReturnedParsed
    /\ HasTableEnvelope(Payload)
    /\ IsObj(EnvelopeTable(Payload))

\* C24: in a single-table createOrReplace payload every directLake partition is
\* checked by the DirectLake partition rule and every import partition by the
\* Import partition rule, whichever typed partition comes first in the array.
C24_PartitionRuleByMode ==
    SingleTablePayload =>
        /\ \A source \in TableSourcesOfMode(EnvelopeTable(Payload), "directLake") :
               ~In("entityName", source) =>
                   /\ ~result.valid
                   /\ Mentions(result.error,
                               <<TableName(EnvelopeTable(Payload)), <<"entityName">> >>)
        /\ \A source \in TableSourcesOfMode(EnvelopeTable(Payload), "import") :
               /\ ~In("type", source) => ~result.valid
               /\ (Get(source, "type", JNull) = S("m") /\ ~In("expression", source)) =>
                      /\ ~result.valid
                      /\ Mentions(result.error,
                                  <<TableName(EnvelopeTable(Payload)), <<"expression">> >>)


-----------------------------------------------------------------------------
(* More claims about update_model_using_tmsl *)

\* server.Connect has succeeded in the call that returned: the validator, which
\* is called right after it, has run
ConnectSucceeded == validation_result # NoResult

C30_WitnessValidationFailed ==
    /\ pc = "returned"
    /\ ConnectSucceeded
    /\ cleanup = "closed"
    /\ retval = "TMSL Validation Failed"

C30_WitnessRaised ==
    /\ pc = "returned"
    /\ ConnectSucceeded
    /\ cleanup = "closed"
    /\ retval = "Error updating TMSL definition"


-----------------------------------------------------------------------------
(* More claims about the service *)

\* the two shapes of a result of analyze_model_from_tmsl
IsSuccessResult(value) ==
    /\ {"success", "violations", "summary", "rules_count"} \subseteq DOMAIN value
    /\ value.success
    /\ "error" \notin DOMAIN value

IsFailureResult(value) ==
    /\ {"error", "violations", "summary"} \subseteq DOMAIN value
    /\ value.violations = <<>>
    /\ value.summary = EmptyDict
    /\ "success" \notin DOMAIN value

\* C22: analyze_model_from_tmsl never lets an exception escape: it returns a
\* success result or a failure result, and a failure result when the normalized
\* text is no JSON and when the analyzer raised.
C22_AnalyzeNeverRaises ==
    (reply.op = "analyze_model_from_tmsl") =>
        /\ ~reply.raised
        /\ IsSuccessResult(reply.value) \/ IsFailureResult(reply.value)
        /\ (Normalize(reply.text).raised
              \/ Loads(Normalize(reply.text).text).raises # "none")
             => IsFailureResult(reply.value)
        /\ reply.analyzer_raised => IsFailureResult(reply.value)

\* the analyzer raised in an analysis of a text that is JSON
C22_Witness ==
    /\ reply.op = "analyze_model_from_tmsl"
    /\ ~IsDisabled(service)
    /\ reply.analyzer_raised
    /\ ~Normalize(reply.text).raised
    /\ Loads(Normalize(reply.text).text).raises = "none"
    /\ IsFailureResult(reply.value)

C22_WitnessSuccess ==
    /\ reply.op = "analyze_model_from_tmsl"
    /\ IsSuccessResult(reply.value)
    /\ Len(reply.value.violations) = 2

C22_WitnessNotJson ==
    /\ reply.op = "analyze_model_from_tmsl"
    /\ ~IsDisabled(service)
    /\ ~Normalize(reply.text).raised
    /\ Loads(Normalize(reply.text).text).raises = "JSONDecodeError"
    /\ IsFailureResult(reply.value)


-----------------------------------------------------------------------------
(* The rule engine on a catalog with a faulty rule. BPAAnalyzer is not part of  *)
(* the sources at hand; its evaluation follows section 4.4 of the               *)
(* specification: every rule is evaluated on every object of its scope, and a   *)
(* rule whose evaluation fails on an object is skipped for that object.         *)

Scopes == {"Table", "Column"}

\* an object of the model: flagged objects fail the condition of the rules of
\* their scope, odd objects lack an attribute that a condition may read
ModelObject(scope, name, flagged, odd) ==
    [scope |-> scope, name |-> name, flagged |-> flagged, odd |-> odd]

ModelObjectLists ==
    {<<ModelObject("Table", "t", f1, o1)>> : f1 \in BOOLEAN, o1 \in BOOLEAN}
    \cup {<<ModelObject("Table", "t", f1, o1), ModelObject("Column", "c", f2, o2)>> :
            f1 \in BOOLEAN, o1 \in BOOLEAN, f2 \in BOOLEAN, o2 \in BOOLEAN}

\* a rule descriptor: a sound one, a malformed one (its evaluation fails on every
\* object) or one whose condition throws on odd objects
RuleKinds == {"sound", "malformed", "throws"}

RuleDescriptor(id, scope, kind) ==
    [id |-> id, scope |-> scope, kind |-> kind,
     severity |-> IF scope = "Table" THEN "ERROR" ELSE "WARNING",
     category |-> IF scope = "Table" THEN "Performance" ELSE "Naming Conventions"]

\* catalogs of two or three rules with at most one faulty rule
Catalogs ==
    {<<RuleDescriptor(1, s1, k), RuleDescriptor(2, s2, "sound")>> :
        s1 \in Scopes, s2 \in Scopes, k \in RuleKinds}
    \cup {<<RuleDescriptor(1, s1, "sound"), RuleDescriptor(2, s2, k),
            RuleDescriptor(3, s3, "sound")>> :
        s1 \in Scopes, s2 \in Scopes, s3 \in Scopes, k \in RuleKinds \ {"sound"}}

\* the evaluation of one rule on one object: "violation", "pass" or "fault"
Evaluate(rule, object) ==
    IF rule.kind = "malformed" THEN "fault"
    ELSE IF rule.kind = "throws" /\ object.odd THEN "fault"
    ELSE IF object.flagged THEN "violation" ELSE "pass"

RuleViolation(rule, object) ==
    [rule_id |-> rule.id, object |-> object.name,
     severity |-> rule.severity, category |-> rule.category]

\* one rule on the objects of its scope
RECURSIVE AnalyzeObjects(_, _, _)
AnalyzeObjects(rule, objects, acc) ==
    IF objects = <<>> THEN acc
    ELSE AnalyzeObjects(rule, Tail(objects),
            IF Head(objects).scope # rule.scope THEN acc
            ELSE IF Evaluate(rule, Head(objects)) = "fault"
            THEN [acc EXCEPT !.skipped = @ + 1]
            ELSE IF Evaluate(rule, Head(objects)) = "violation"
            THEN [acc EXCEPT !.violations = Append(@, RuleViolation(rule, Head(objects)))]
            ELSE acc)

\* BPAAnalyzer.analyze_model: every rule on every object
RECURSIVE AnalyzeRules(_, _, _)
AnalyzeRules(rules, objects, acc) ==
    IF rules = <<>> THEN acc
    ELSE AnalyzeRules(Tail(rules), objects, AnalyzeObjects(Head(rules), objects, acc))

analyzer_analyze_model(analyzer, objects) ==
    AnalyzeRules(analyzer.rules, objects,
                 [raised |-> FALSE, violations |-> <<>>, skipped |-> 0])

\* BPAService.__init__ with the catalog file holding the descriptors
BPAServiceWith(rules) ==
    [constructed |-> TRUE,
     analyzer |-> [none |-> FALSE, rules |-> rules, violations |-> <<>>]]

\* the text of the model that is analyzed
RulesText ==
    JsonText(BareModel(ModelWith("tables", <<Item(Given(S("a")), FALSE)>>)),
             "compact", FALSE, FALSE)

InitRules ==
    /\ descriptors \in Catalogs
    /\ model_objects \in ModelObjectLists
    /\ catalog = TRUE
    /\ service = NoService
    /\ reply = NoReply
    /\ previous = NoReply
    /\ cleanup = "none"
    /\ OverlapIdle
    /\ HelperIdle
    /\ NormalizerIdle
    /\ tmsl_definition = InvalidText
    /\ result = NoResult
    /\ pc = "idle"
    /\ validate_only = FALSE
    /\ access_token = TRUE
    /\ connected = FALSE
    /\ validation_result = NoResult
    /\ final_tmsl = "none"
    /\ executed = 0
    /\ retval = "none"

RulesFrame ==
    UNCHANGED <<tmsl_definition, result, pc, validate_only, access_token, connected,
                validation_result, final_tmsl, executed, retval, raw, normalized, rounds,
                catalog, cleanup, rules_vars, overlap_vars, helper_vars>>

RulesConstruct ==
    /\ ~service.constructed
    /\ service' = BPAServiceWith(descriptors)
    /\ reply' = [op |-> "__init__", channel |-> "service"]
    /\ previous' = reply
    /\ RulesFrame

RulesAnalyze ==
    /\ service.constructed
    /\ LET r == analyze_model_from_tmsl(service, RulesText,
                    analyzer_analyze_model(service.analyzer, model_objects))
       IN  /\ service' = [service EXCEPT !.analyzer = r.analyzer]
           /\ reply' = Reply("analyze_model_from_tmsl", "service", r)
    /\ previous' = reply
    /\ RulesFrame

NextRules == RulesConstruct \/ RulesAnalyze

SpecRules == InitRules /\ [][NextRules]_vars


-----------------------------------------------------------------------------
(* Claims about the rule engine *)

\* the evaluation of the rule fails on the object
IsFaultyPair(rule, object) ==
    /\ rule.scope = object.scope
    /\ rule.kind = "malformed" \/ (rule.kind = "throws" /\ object.odd)

-----------------------------------------------------------------------------
(* Two analyze_model_from_tmsl calls on bpa_service, the one BPAService object   *)
(* of server.py. Each call takes the three steps of lines 55-61 on the analyzer *)
(* of the service; the steps of the two calls may interleave.                   *)

Callers == {"A", "B"}
Other(c) == IF c = "A" THEN "B" ELSE "A"

\* a call that has not begun; found is what analyzer.analyze_model finds in the
\* model of the call
NewCall(found) == [pc |-> "idle", found |-> found]

InFlight(call) == call.pc \in {"analyzed", "summarized"}

\* lines 63-69 with the violations left out of the result
SuccessResultEmpty(analyzer, summary, violations_dict) ==
    [success |-> TRUE, violations |-> <<>>, summary |-> summary,
     rules_count |-> Len(analyzer.rules), analysis_complete |-> TRUE]

\* lines 63-69
SuccessResult(analyzer, summary, violations_dict) ==
    [success |-> TRUE, violations |-> violations_dict, summary |-> summary,
     rules_count |-> Len(analyzer.rules), analysis_complete |-> TRUE]

InitOverlap ==
    /\ calls \in [Callers -> {NewCall(found) : found \in ViolationLists}]
    /\ history = NoHistory
    /\ catalog = TRUE
    /\ service = BPAService(TRUE)
    /\ reply = NoReply
    /\ previous = NoReply
    /\ cleanup = "none"
    /\ RulesIdle
    /\ HelperIdle
    /\ NormalizerIdle
    /\ tmsl_definition = InvalidText
    /\ result = NoResult
    /\ pc = "idle"
    /\ validate_only = FALSE
    /\ access_token = TRUE
    /\ connected = FALSE
    /\ validation_result = NoResult
    /\ final_tmsl = "none"
    /\ executed = 0
    /\ retval = "none"

OverlapFrame ==
    UNCHANGED <<tmsl_definition, result, pc, validate_only, access_token, connected,
                validation_result, final_tmsl, executed, retval, raw, normalized, rounds,
                catalog, cleanup, rules_vars, helper_vars>>

\* lines 45-55: the text of the call is cleaned, formatted and parsed, and
\* analyzer.analyze_model puts what it finds on the analyzer
StepAnalyzeModel(c) ==
    /\ calls[c].pc = "idle"
    /\ service' = [service EXCEPT !.analyzer.violations = calls[c].found]
    /\ calls' = [calls EXCEPT ![c].pc = "analyzed"]
    /\ history' = [writer |-> c,
                   overlapped |-> history.overlapped \/ InFlight(calls[Other(c)])]
    /\ UNCHANGED <<reply, previous>>
    /\ OverlapFrame

\* line 58: summary = self.analyzer.get_violations_summary()
StepGetSummary(c) ==
    /\ calls[c].pc = "analyzed"
    /\ calls' = [calls EXCEPT ![c] =
                    [pc |-> "summarized", found |-> calls[c].found,
                     summary |-> analyzer_get_violations_summary(service.analyzer)]]
    /\ UNCHANGED <<service, reply, previous, history>>
    /\ OverlapFrame

\* lines 61-69: violations_dict = self.analyzer.export_violations_to_dict(), and
\* the result is returned
StepExport(c) ==
    /\ calls[c].pc = "summarized"
    /\ calls' = [calls EXCEPT ![c] =
                    [pc |-> "returned", found |-> calls[c].found,
                     value |-> SuccessResult(service.analyzer, calls[c].summary,
                                             service.analyzer.violations)]]
    /\ UNCHANGED <<service, reply, previous, history>>
    /\ OverlapFrame

\* a filter-by-severity or filter-by-category call on bpa_service
OverlapFilter ==
    /\ \/ \E severity_name \in Severities :
             reply' = Reply("get_violations_by_severity", "service",
                            get_violations_by_severity(service, severity_name))
                         @@ [filter |-> severity_name, writer |-> history.writer]
       \/ \E category \in Categories :
             reply' = Reply("get_violations_by_category", "service",
                            get_violations_by_category(service, category))
                         @@ [filter |-> category, writer |-> history.writer]
    /\ previous' = reply
    /\ UNCHANGED <<service, calls, history>>
    /\ OverlapFrame

NextOverlap ==
    \/ \E c \in Callers : StepAnalyzeModel(c)
    \/ \E c \in Callers : StepGetSummary(c)
    \/ \E c \in Callers : StepExport(c)
    \/ OverlapFilter

SpecOverlap == InitOverlap /\ [][NextOverlap]_vars


-----------------------------------------------------------------------------
(* Claims about overlapping analyses *)

\* the summary of a list of violations: how many it has of each severity
SummaryOf(violations) ==
    [severity \in Severities |->
        Cardinality({i \in 1..Len(violations) : violations[i].severity = severity})]

\* the violations of a list that a filter value selects
Filtered(violations, filter) ==
    SelectSeq(violations, LAMBDA v : v.severity = filter \/ v.category = filter)

\* the result that the call of c returned describes the input of d
Describes(c, d) ==
    /\ calls[c].value.violations = calls[d].found
    /\ calls[c].value.summary = SummaryOf(calls[d].found)

HasReturned(c) == c \in DOMAIN calls /\ calls[c].pc = "returned"

\* C21: when the two calls do not overlap, each returned result describes its
\* own input; when they overlap, its summary and its violations each come from
\* the model of one of the two calls; and a filter call returns the violations
\* of the analysis that wrote the analyzer last.
C21_LastAnalysisSlot ==
    /\ \A c \in Callers :
          HasReturned(c) =>
              /\ ~history.overlapped => Describes(c, c)
              /\ calls[c].value.violations \in {calls[d].found : d \in Callers}
              /\ calls[c].value.summary \in {SummaryOf(calls[d].found) : d \in Callers}
    /\ (reply.op \in {"get_violations_by_severity", "get_violations_by_category"}
          /\ calls # NoCalls) =>
          /\ ~reply.raised
          /\ reply.value = IF reply.writer = "none" THEN <<>>
                           ELSE Filtered(calls[reply.writer].found, reply.filter)

\* two overlapping calls, one of which returned the violations of the other's
\* model with the summary of its own
C21_Witness ==
    /\ history.overlapped
    /\ HasReturned("A")
    /\ calls["A"].value.violations = calls["B"].found
    /\ calls["A"].value.violations # calls["A"].found
    /\ calls["A"].value.summary = SummaryOf(calls["A"].found)
    /\ calls["A"].value.summary # SummaryOf(calls["B"].found)

\* a filter call after both calls returned the violations of the later writer
C21_WitnessFilter ==
    /\ HasReturned("A")
    /\ HasReturned("B")
    /\ reply.op = "get_violations_by_severity"
    /\ reply.writer = "B"
    /\ Len(reply.value) > 0
    /\ reply.value # Filtered(calls["A"].found, reply.filter)

\* two calls one after the other, each with a result of its own
C21_WitnessApart ==
    /\ ~history.overlapped
    /\ HasReturned("A")
    /\ HasReturned("B")
    /\ calls["A"].found # calls["B"].found
    /\ Describes("A", "A")
    /\ Describes("B", "B")


-----------------------------------------------------------------------------
(* src/tmsl_table_helper.py: a table is taken out of a model, a measure is     *)
(* added to it, and the result is checked for completeness.                    *)

\* an exception, and a value that was returned
Raising(error) == [raised |-> TRUE, error |-> error]
Returns(value) == [raised |-> FALSE, value |-> value]

\* d[k] of Python: a dict gives the member, every other value raises here
CanIndex(d, k) == IsObj(d) /\ k \in DOMAIN d.o

\* lines 36-41: the model of the document; None (JNull) when there is none
ModelOf(tmsl_data) ==
    IF ~CanIn(tmsl_data) THEN Raising("TypeError")
    ELSE IF In("model", tmsl_data)
    THEN (IF CanIndex(tmsl_data, "model") THEN Returns(tmsl_data.o["model"])
          ELSE Raising("TypeError"))
    ELSE IF ~In("createOrReplace", tmsl_data) THEN Returns(JNull)
    ELSE IF ~CanIndex(tmsl_data, "createOrReplace") THEN Raising("TypeError")
    ELSE LET envelope == tmsl_data.o["createOrReplace"] IN
         IF ~CanIn(envelope) THEN Raising("TypeError")
         ELSE IF ~In("database", envelope) THEN Returns(JNull)
         ELSE IF ~CanIndex(envelope, "database") THEN Raising("TypeError")
         ELSE LET database == envelope.o["database"] IN
              IF ~CanIn(database) THEN Raising("TypeError")
              ELSE IF ~In("model", database) THEN Returns(JNull)
              ELSE IF ~CanIndex(database, "model") THEN Raising("TypeError")
              ELSE Returns(database.o["model"])

\* lines 50-54: the first table of the list with the name; None when there is
\* none; a table that is no dict has no .get
RECURSIVE FindTable(_, _)
FindTable(tables, table_name) ==
    IF tables = <<>> THEN Returns(JNull)
    ELSE IF ~IsObj(Head(tables)) THEN Raising("AttributeError")
    ELSE IF PyEq(Get(Head(tables), "name", JNull), table_name) THEN Returns(Head(tables))
    ELSE FindTable(Tail(tables), table_name)

\* {"createOrReplace": {"table": target_table}}
TableTmsl(target_table) ==
    JObj(Field("createOrReplace", JObj(Field("table", target_table))))

\* lines 43-67, for the model that was found
ExtractFrom(model, table_name) ==
    IF ~Truthy(model) THEN Raising("No model found in TMSL definition")
    ELSE IF ~CanIn(model) THEN Raising("TypeError")
    ELSE IF ~In("tables", model) THEN Raising("No tables found in model")
    ELSE IF ~CanIndex(model, "tables") THEN Raising("TypeError")
    ELSE IF ~CanIter(model.o["tables"]) THEN Raising("TypeError")
    ELSE LET found == FindTable(Items(model.o["tables"]), table_name) IN
         IF found.raised THEN found
         ELSE IF ~Truthy(found.value) THEN Raising("Table not found")
         ELSE Returns(TableTmsl(found.value))

\* extract_table_structure(complete_tmsl, table_name)
extract_table_structure(complete_tmsl, table_name) ==
    IF ~complete_tmsl.parses THEN Raising("Invalid TMSL JSON")
    ELSE IF ModelOf(complete_tmsl.value).raised THEN ModelOf(complete_tmsl.value)
    ELSE ExtractFrom(ModelOf(complete_tmsl.value).value, table_name)


\* lines 97-106: the measure that is put into the table
NewMeasure(measure_name, measure_expression, format_string, description) ==
    JObj(Field("name", measure_name) @@ Field("expression", measure_expression)
         @@ Opt(Truthy(format_string), "formatString", format_string)
         @@ Opt(Truthy(description), "description", description))

\* lines 110-114: the index of the first measure with the name, 0 when there is
\* none, -1 when a measure before it is no dict
RECURSIVE MeasureIndex(_, _, _)
MeasureIndex(measures, measure_name, i) ==
    IF i > Len(measures) THEN 0
    ELSE IF ~IsObj(measures[i]) THEN -1
    ELSE IF PyEq(Get(measures[i], "name", JNull), measure_name) THEN i
    ELSE MeasureIndex(measures, measure_name, i + 1)

\* the document with the measures member of its table set
WithMeasures(table_tmsl, measures) ==
    JObj([table_tmsl.o EXCEPT !["createOrReplace"] =
            JObj([@.o EXCEPT !["table"] =
                    JObj([k \in DOMAIN @.o \cup {"measures"} |->
                            IF k = "measures" THEN measures ELSE @.o[k]])])])

\* lines 108-119 with the measure always appended
PutMeasureAppending(table_tmsl, existing_measures, new_measure) ==
    IF ~CanIter(existing_measures) THEN Raising("TypeError")
    ELSE IF MeasureIndex(Items(existing_measures), new_measure.o["name"], 1) = -1
    THEN Raising("AttributeError")
    ELSE IF existing_measures.t # "arr" THEN Raising("AttributeError")
    ELSE Returns(WithMeasures(table_tmsl, JArr(Append(existing_measures.a, new_measure))))

\* lines 108-119: the measure replaces the first one of its name, or is appended
PutMeasure(table_tmsl, existing_measures, new_measure) ==
    IF ~CanIter(existing_measures) THEN Raising("TypeError")
    ELSE IF MeasureIndex(Items(existing_measures), new_measure.o["name"], 1) = -1
    THEN Raising("AttributeError")
    ELSE IF MeasureIndex(Items(existing_measures), new_measure.o["name"], 1) > 0
    THEN Returns(WithMeasures(table_tmsl,
            JArr([existing_measures.a EXCEPT
                    ![MeasureIndex(existing_measures.a, new_measure.o["name"], 1)] =
                        new_measure])))
    ELSE IF existing_measures.t # "arr" THEN Raising("AttributeError")
    ELSE Returns(WithMeasures(table_tmsl, JArr(Append(existing_measures.a, new_measure))))

\* add_measure_to_table_tmsl
add_measure_to_table_tmsl(table_tmsl, measure_name, measure_expression, format_string, description) ==
    IF ~CanIndex(table_tmsl, "createOrReplace") THEN Raising("KeyError")
    ELSE IF ~CanIndex(table_tmsl.o["createOrReplace"], "table") THEN Raising("KeyError")
    ELSE IF ~CanIn(table_tmsl.o["createOrReplace"].o["table"]) THEN Raising("TypeError")
    ELSE IF ~IsObj(table_tmsl.o["createOrReplace"].o["table"]) THEN Raising("TypeError")
    ELSE PutMeasure(table_tmsl,
                    Get(table_tmsl.o["createOrReplace"].o["table"], "measures", JArr(<<>>)),
                    NewMeasure(measure_name, measure_expression, format_string, description))


\* a warning of validate_table_completeness: critical ones begin with the cross
Warning(critical, about) == [critical |-> critical, about |-> about]

Finding(warnings, suggestions) ==
    [raised |-> FALSE, warnings |-> warnings, suggestions |-> suggestions]

\* lines 139-145: a member that is missing or empty
MissingOrEmpty(table_content, k, acc) ==
    IF acc.raised THEN acc
    ELSE IF ~In(k, table_content)
    THEN Finding(Append(acc.warnings, Warning(TRUE, <<"missing", k>>)),
                 Append(acc.suggestions, k))
    ELSE IF ~CanLen(table_content.o[k]) THEN Raising("TypeError")
    ELSE IF PyLen(table_content.o[k]) = 0
    THEN Finding(Append(acc.warnings, Warning(TRUE, <<"missing", k>>)),
                 Append(acc.suggestions, k))
    ELSE acc

\* lines 148-150
NoMeasures(table_content, acc) ==
    IF acc.raised THEN acc
    ELSE IF ~In("measures", table_content)
    THEN Finding(Append(acc.warnings, Warning(FALSE, <<"missing", "measures">>)),
                 Append(acc.suggestions, "measures"))
    ELSE acc

\* lines 155-158 and 162-165, for one column or measure: a missing name is
\* critical, a missing second property is critical for a measure
RECURSIVE ObjectWarnings(_, _, _, _)
ObjectWarnings(objects, second, critical, acc) ==
    IF acc.raised \/ objects = <<>> THEN acc
    ELSE LET object == Head(objects)
             named == IF In("name", object) THEN acc.warnings
                      ELSE Append(acc.warnings, Warning(TRUE, <<"name">>))
         IN  ObjectWarnings(Tail(objects), second, critical,
                IF ~CanIn(object) THEN Raising("TypeError")
                ELSE IF In(second, object) THEN Finding(named, acc.suggestions)
                ELSE IF ~IsObj(object) THEN Raising("AttributeError")
                ELSE Finding(Append(named, Warning(critical, <<second>>)), acc.suggestions))

\* lines 153-165: the loop over a member that is there
MemberWarnings(table_content, k, second, critical, acc) ==
    IF acc.raised \/ ~In(k, table_content) THEN acc
    ELSE IF ~CanIter(table_content.o[k]) THEN Raising("TypeError")
    ELSE ObjectWarnings(Items(table_content.o[k]), second, critical, acc)

\* lines 132-133: .get("createOrReplace", {}).get("table", {}), and the .get of
\* the name
TableContentOf(table_tmsl) ==
    IF ~IsObj(table_tmsl) THEN Raising("AttributeError")
    ELSE IF ~IsObj(Get(table_tmsl, "createOrReplace", EmptyObj)) THEN Raising("AttributeError")
    ELSE IF ~IsObj(Get(Get(table_tmsl, "createOrReplace", EmptyObj), "table", EmptyObj))
    THEN Raising("AttributeError")
    ELSE Returns(Get(Get(table_tmsl, "createOrReplace", EmptyObj), "table", EmptyObj))

\* lines 139-165 on the table content
CompletenessWarnings(table_content) ==
    MemberWarnings(table_content, "measures", "expression", TRUE,
        MemberWarnings(table_content, "columns", "dataType", FALSE,
            NoMeasures(table_content,
                MissingOrEmpty(table_content, "partitions",
                    MissingOrEmpty(table_content, "columns", Finding(<<>>, <<>>))))))

\* lines 167-171
CompletenessResult(acc) ==
    IF acc.raised THEN acc
    ELSE Returns([valid |-> \A i \in 1..Len(acc.warnings) : ~acc.warnings[i].critical,
                  warnings |-> acc.warnings,
                  suggestions |-> acc.suggestions])

\* validate_table_completeness
validate_table_completeness(table_tmsl) ==
    IF TableContentOf(table_tmsl).raised THEN TableContentOf(table_tmsl)
    ELSE CompletenessResult(CompletenessWarnings(TableContentOf(table_tmsl).value))

\* lines 222-230
WorkflowFailure(error) ==
    [tmsl |-> JNull,
     validation |-> [valid |-> FALSE, warnings |-> <<Warning(TRUE, <<"ERROR", error>>)>>,
                     suggestions |-> <<>>],
     safe |-> FALSE,
     warnings |-> <<Warning(TRUE, <<"ERROR", error>>)>>,
     suggestions |-> <<"Check table name and TMSL structure">>]

\* lines 208-220 with is_safe taken from validation["valid"] alone
WorkflowCheckedValidOnly(updated_tmsl, validation) ==
    IF validation.raised THEN WorkflowFailure(validation.error)
    ELSE [tmsl |-> updated_tmsl,
          validation |-> validation.value,
          safe |-> validation.value.valid,
          warnings |-> validation.value.warnings,
          suggestions |-> validation.value.suggestions]

\* lines 208-220
WorkflowChecked(updated_tmsl, validation) ==
    IF validation.raised THEN WorkflowFailure(validation.error)
    ELSE [tmsl |-> updated_tmsl,
          validation |-> validation.value,
          safe |-> validation.value.valid /\ Len(validation.value.warnings) = 0,
          warnings |-> validation.value.warnings,
          suggestions |-> validation.value.suggestions]

\* lines 203-220
WorkflowAdded(updated_tmsl) ==
    IF updated_tmsl.raised THEN WorkflowFailure(updated_tmsl.error)
    ELSE WorkflowChecked(updated_tmsl.value, validate_table_completeness(updated_tmsl.value))

\* lines 200-205
WorkflowExtracted(table_tmsl, measure_name, measure_expression, format_string, description) ==
    IF table_tmsl.raised THEN WorkflowFailure(table_tmsl.error)
    ELSE WorkflowAdded(add_measure_to_table_tmsl(table_tmsl.value, measure_name,
                           measure_expression, format_string, description))

\* create_safe_measure_addition_workflow
create_safe_measure_addition_workflow(complete_tmsl, table_name, measure_name, measure_expression, format_string, description) ==
    WorkflowExtracted(extract_table_structure(complete_tmsl, table_name),
                      measure_name, measure_expression, format_string, description)


-----------------------------------------------------------------------------
(* The calls of the table helper *)

MaxAdds == 3

\* values of the wrong JSON type
HelperJunk ==
    {JNull, NNum(0), NNum(1), JBool(TRUE), JStr(<<>>), S("x"), JArr(<<>>),
     JArr(<<NNum(1)>>), EmptyObj, S("model"), JArr(<<S("model")>>),
     JArr(<<S("createOrReplace")>>), JArr(<<S("tables")>>), S("name")}

\* the tables of the models
HelperTables ==
    {Table("Sales", m, FALSE, pl, cs, ms, FALSE) :
        m \in BOOLEAN,
        pl \in CorePartitionLists \cup {[present |-> TRUE, value |-> JArr(<<BadImport>>)],
                                        [present |-> TRUE, value |-> JArr(<<BadDirectLake>>)]},
        cs \in ObjectLists(Column), ms \in ObjectLists(Measure)}
    \cup {JunkTable(k, j) : k \in {"partitions", "columns", "measures", "name"},
                            j \in HelperJunk}
    \cup {JunkTable(k, JArr(<<j>>)) : k \in {"partitions", "columns", "measures"},
                                      j \in HelperJunk}

OtherTable == Table("Orders", FALSE, FALSE, NoMember, GoodColumns, NoMember, FALSE)

\* the documents a table is taken from
HelperDocs ==
    HelperJunk
    \cup {JObj(Field("model", j)) : j \in HelperJunk}
    \cup {JObj(Field("createOrReplace", j)) : j \in HelperJunk}
    \cup {JObj(Field("createOrReplace", JObj(Field("database", j)))) : j \in HelperJunk}
    \cup {DatabaseEnvelope(j) : j \in HelperJunk}
    \cup {BareModel(JObj(Field("tables", j))) : j \in HelperJunk}
    \cup {BareModel(JObj(Field("tables", JArr(<<j>>)))) : j \in HelperJunk}
    \cup {BareModel(JObj(Field("tables", JArr(<<OtherTable, j>>)))) : j \in HelperJunk}
    \cup {BareModel(Model(TRUE, JArr(<<OtherTable, t>>), NoMember)) : t \in HelperTables}
    \cup {DatabaseEnvelope(Model(TRUE, JArr(<<t>>), NoMember)) : t \in HelperTables}
    \cup {TableEnvelope(t) : t \in CoreTableContents}

HelperTexts == {InvalidText} \cup {Text(d) : d \in HelperDocs}

MeasureNames == {S("Total"), S("Margin")}
MeasureExpressions == {S("SUM(x)"), S("1")}
FormatStrings == {JNull, JStr(<<>>), S("0.00")}

\* the arguments of a call that adds a measure
AddCalls ==
    [measure_name : MeasureNames, measure_expression : MeasureExpressions,
     format_string : FormatStrings, description : {JNull}]

\* table TMSLs whose measures have names of their own
StartTables ==
    {TableTmsl(Table("Sales", FALSE, FALSE, pl, GoodColumns, ms, FALSE)) :
        pl \in {NoMember, [present |-> TRUE, value |-> JArr(<<GoodImport>>)]},
        ms \in {NoMember, [present |-> TRUE, value |-> JArr(<<>>)], GoodMeasures,
                [present |-> TRUE,
                 value |-> JArr(<<JObj(Field("name", S("Margin")) @@ Field("expression", S("1"))),
                                  Measure(TRUE, TRUE),
                                  JObj(Field("name", S("Count")))>>)]}}
    \cup {TableEnvelope(Table("Sales", FALSE, FALSE, NoMember, GoodColumns, GoodMeasures,
                              FALSE))}

InitHelper ==
    /\ \/ /\ \E text \in HelperTexts, name \in {S("Sales"), S("Items")} :
               workflow = [at |-> "call", complete_tmsl |-> text, table_name |-> name]
          /\ edits = NoEdits
       \/ /\ workflow = NoWorkflow
          /\ \E table_tmsl \in StartTables :
               edits = [at |-> "start", table_tmsl |-> table_tmsl, done |-> <<>>,
                        before |-> <<>>]
    /\ cleanup = "none"
    /\ RulesIdle
    /\ OverlapIdle
    /\ NormalizerIdle
    /\ ServiceIdle
    /\ tmsl_definition = InvalidText
    /\ result = NoResult
    /\ pc = "idle"
    /\ validate_only = FALSE
    /\ access_token = TRUE
    /\ connected = FALSE
    /\ validation_result = NoResult
    /\ final_tmsl = "none"
    /\ executed = 0
    /\ retval = "none"

HelperFrame ==
    UNCHANGED <<validate_only, access_token, connected, validation_result, final_tmsl,
                executed, retval, raw, normalized, rounds, service_vars, cleanup,
                rules_vars, overlap_vars>>

\* create_safe_measure_addition_workflow(complete_tmsl, table_name, ...)
CallWorkflow ==
    /\ workflow.at = "call"
    /\ \E call \in AddCalls :
          workflow' = [at |-> "returned", complete_tmsl |-> workflow.complete_tmsl,
                       table_name |-> workflow.table_name, call |-> call,
                       value |-> create_safe_measure_addition_workflow(
                                    workflow.complete_tmsl, workflow.table_name,
                                    call.measure_name, call.measure_expression,
                                    call.format_string, call.description)]
    /\ UNCHANGED <<tmsl_definition, result, pc, edits>>
    /\ HelperFrame

\* validate_tmsl_structure(json.dumps(tmsl)) on the tmsl that the workflow returned
CallValidateTmsl ==
    /\ workflow.at = "returned"
    /\ workflow.value.tmsl # JNull
    /\ pc = "idle"
    /\ tmsl_definition' = Text(workflow.value.tmsl)
    /\ result' = validate_tmsl_structure(Text(workflow.value.tmsl))
    /\ pc' = "returned"
    /\ UNCHANGED <<workflow, edits>>
    /\ HelperFrame

\* add_measure_to_table_tmsl(table_tmsl, ...) on the table TMSL of the calls before
CallAddMeasure ==
    /\ edits.at \in {"start", "added"}
    /\ Len(edits.done) < MaxAdds
    /\ \E call \in AddCalls :
          LET r == add_measure_to_table_tmsl(edits.table_tmsl, call.measure_name,
                       call.measure_expression, call.format_string, call.description)
          IN  edits' = IF r.raised
                       THEN [at |-> "raised", table_tmsl |-> edits.table_tmsl,
                             done |-> Append(edits.done, call),
                             before |-> Append(edits.before, edits.table_tmsl)]
                       ELSE [at |-> "added", table_tmsl |-> r.value,
                             done |-> Append(edits.done, call),
                             before |-> Append(edits.before, edits.table_tmsl)]
    /\ UNCHANGED <<tmsl_definition, result, pc, workflow>>
    /\ HelperFrame

NextHelper == CallWorkflow \/ CallValidateTmsl \/ CallAddMeasure

SpecHelper == InitHelper /\ [][NextHelper]_vars


-----------------------------------------------------------------------------
(* Claims about the table helper *)

WorkflowReturned == workflow.at = "returned"

\* the document of the workflow's text, and the model it holds in one of the
\* two places
WorkflowDoc == workflow.complete_tmsl.value

HoldsModel(doc) ==
    IsObj(doc) /\ (In("model", doc) \/ (HasDatabaseEnvelope(doc) /\ IsWholeModel(doc)))

HeldModel(doc) == IF In("model", doc) THEN doc.o["model"] ELSE PayloadModel(doc)

\* the four faults of the input that the claim names
InvalidJson == ~workflow.complete_tmsl.parses

MissingModel ==
    /\ workflow.complete_tmsl.parses
    /\ IsObj(WorkflowDoc)
    /\ \/ ~In("model", WorkflowDoc) /\ ~In("createOrReplace", WorkflowDoc)
       \/ In("model", WorkflowDoc) /\ WorkflowDoc.o["model"] \in {JNull, EmptyObj}

MissingTables ==
    /\ workflow.complete_tmsl.parses
    /\ HoldsModel(WorkflowDoc)
    /\ IsObj(HeldModel(WorkflowDoc))
    /\ DOMAIN HeldModel(WorkflowDoc).o # {}
    /\ ~In("tables", HeldModel(WorkflowDoc))

UnknownTable ==
    /\ workflow.complete_tmsl.parses
    /\ HoldsModel(WorkflowDoc)
    /\ IsObj(HeldModel(WorkflowDoc))
    /\ In("tables", HeldModel(WorkflowDoc))
    /\ HeldModel(WorkflowDoc).o["tables"].t = "arr"
    /\ \A i \in 1..Len(HeldModel(WorkflowDoc).o["tables"].a) :
          LET table == HeldModel(WorkflowDoc).o["tables"].a[i] IN
          IsObj(table) /\ Get(table, "name", JNull) # workflow.table_name

\* the table of the model that has the name
TableIsThere ==
    /\ workflow.complete_tmsl.parses
    /\ HoldsModel(WorkflowDoc)
    /\ IsObj(HeldModel(WorkflowDoc))
    /\ In("tables", HeldModel(WorkflowDoc))
    /\ HeldModel(WorkflowDoc).o["tables"].t = "arr"
    /\ \E i \in 1..Len(HeldModel(WorkflowDoc).o["tables"].a) :
          LET table == HeldModel(WorkflowDoc).o["tables"].a[i] IN
          IsObj(table) /\ Get(table, "name", JNull) = workflow.table_name

\* the measures of the table of a table TMSL
MeasuresOf(table_tmsl) == EnvelopeTable(table_tmsl).o["measures"].a

\* the table TMSL has the measure of the call
MeasureIsThere(table_tmsl, call) ==
    /\ HasTableEnvelope(table_tmsl)
    /\ IsObj(EnvelopeTable(table_tmsl))
    /\ HasList(EnvelopeTable(table_tmsl), "measures")
    /\ \E i \in 1..Len(MeasuresOf(table_tmsl)) :
          /\ IsObj(MeasuresOf(table_tmsl)[i])
          /\ Get(MeasuresOf(table_tmsl)[i], "name", JNull) = call.measure_name
          /\ Get(MeasuresOf(table_tmsl)[i], "expression", JNull) = call.measure_expression

\* C27: the workflow returns a result on every input; safe is true only when
\* the table was found, the measure was added and the completeness check gave
\* valid with no warning; invalid JSON, a missing model, a missing tables array
\* and an unknown table name give tmsl None, safe false and one error warning.
C27_WorkflowConsistent ==
    WorkflowReturned =>
        /\ {"tmsl", "validation", "safe", "warnings"} \subseteq DOMAIN workflow.value
        /\ workflow.value.safe =>
              /\ TableIsThere
              /\ workflow.value.tmsl # JNull
              /\ MeasureIsThere(workflow.value.tmsl, workflow.call)
              /\ workflow.value.validation.valid
              /\ workflow.value.validation.warnings = <<>>
              /\ workflow.value.warnings = <<>>
        /\ (InvalidJson \/ MissingModel \/ MissingTables \/ UnknownTable) =>
              /\ workflow.value.tmsl = JNull
              /\ ~workflow.value.safe
              /\ Len(workflow.value.warnings) = 1
              /\ workflow.value.warnings[1].critical
        /\ ~(workflow.value.tmsl # JNull /\ workflow.value.safe
               /\ Len(workflow.value.warnings) > 0)

\* a table was found and the measure was added, but a warning keeps it unsafe
C27_Witness ==
    /\ WorkflowReturned
    /\ TableIsThere
    /\ workflow.value.tmsl # JNull
    /\ workflow.value.validation.valid
    /\ Len(workflow.value.warnings) > 0
    /\ ~workflow.value.safe

C27_WitnessSafe ==
    /\ WorkflowReturned
    /\ workflow.value.safe
    /\ MeasureIsThere(workflow.value.tmsl, workflow.call)

C27_WitnessUnknownTable ==
    /\ WorkflowReturned
    /\ UnknownTable
    /\ Len(HeldModel(WorkflowDoc).o["tables"].a) > 0
    /\ workflow.value.tmsl = JNull


\* the measures member of a table TMSL as a sequence; none when it is missing
MeasureList(table_tmsl) ==
    IF In("measures", EnvelopeTable(table_tmsl)) THEN MeasuresOf(table_tmsl) ELSE <<>>

\* no two measures of the table TMSL have the same name
UniqueMeasureNames(table_tmsl) ==
    \A i, j \in 1..Len(MeasureList(table_tmsl)) :
        (/\ i # j
         /\ In("name", MeasureList(table_tmsl)[i])
         /\ In("name", MeasureList(table_tmsl)[j]))
            => MeasureList(table_tmsl)[i].o["name"] # MeasureList(table_tmsl)[j].o["name"]

\* the measure is the one that the call describes
IsMeasureOf(measure, call) ==
    /\ measure.o["name"] = call.measure_name
    /\ measure.o["expression"] = call.measure_expression
    /\ "formatString" \in DOMAIN measure.o <=> call.format_string \notin {JNull, JStr(<<>>)}
    /\ "formatString" \in DOMAIN measure.o => measure.o["formatString"] = call.format_string
    /\ "description" \notin DOMAIN measure.o

\* the positions of the measures that have the name
PositionsOf(measures, name) ==
    {i \in 1..Len(measures) : Get(measures[i], "name", JNull) = name}

\* after differs from before in the measure of the call only: it replaces the
\* one of its name where that was, or stands at the end
OnlyMeasureChanged(before, after, call) ==
    /\ DOMAIN after.o = DOMAIN before.o
    /\ \A k \in DOMAIN before.o \ {"createOrReplace"} : after.o[k] = before.o[k]
    /\ DOMAIN after.o["createOrReplace"].o = DOMAIN before.o["createOrReplace"].o
    /\ \A k \in DOMAIN before.o["createOrReplace"].o \ {"table"} :
          after.o["createOrReplace"].o[k] = before.o["createOrReplace"].o[k]
    /\ DOMAIN EnvelopeTable(after).o = DOMAIN EnvelopeTable(before).o \cup {"measures"}
    /\ \A k \in DOMAIN EnvelopeTable(before).o \ {"measures"} :
          EnvelopeTable(after).o[k] = EnvelopeTable(before).o[k]
    /\ IF PositionsOf(MeasureList(before), call.measure_name) = {}
       THEN /\ Len(MeasureList(after)) = Len(MeasureList(before)) + 1
            /\ SubSeq(MeasureList(after), 1, Len(MeasureList(before))) = MeasureList(before)
            /\ IsMeasureOf(MeasureList(after)[Len(MeasureList(after))], call)
       ELSE /\ Len(MeasureList(after)) = Len(MeasureList(before))
            /\ \A i \in 1..Len(MeasureList(before)) :
                  IF i \in PositionsOf(MeasureList(before), call.measure_name)
                  THEN IsMeasureOf(MeasureList(after)[i], call)
                  ELSE MeasureList(after)[i] = MeasureList(before)[i]

\* C28: after any sequence of add_measure_to_table_tmsl calls on a table TMSL
\* with unique measure names the names are still unique; each call changed only
\* the measure of its name, in place or at the end; and a call repeated with the
\* same arguments changed nothing.
C28_AddMeasure ==
    (edits.at # "none" /\ Len(edits.done) > 0) =>
        LET n == Len(edits.done) IN
        /\ edits.at = "added"
        /\ UniqueMeasureNames(edits.table_tmsl)
        /\ OnlyMeasureChanged(edits.before[n], edits.table_tmsl, edits.done[n])
        /\ (n > 1 /\ edits.done[n] = edits.done[n - 1]) =>
              edits.table_tmsl = edits.before[n]

\* a measure in the middle was replaced, and the call was repeated
C28_Witness ==
    /\ edits.at = "added"
    /\ Len(edits.done) = 3
    /\ edits.done[3] = edits.done[2]
    /\ edits.done[1].measure_name # edits.done[2].measure_name
    /\ Len(MeasureList(edits.before[1])) = 3
    /\ Len(MeasureList(edits.table_tmsl)) = 3
    /\ 2 \in PositionsOf(MeasureList(edits.before[2]), edits.done[2].measure_name)
    /\ edits.before[3] # edits.before[1]
    /\ edits.before[2] # edits.before[1]
    /\ edits.before[3] # edits.before[2]

\* a measure was appended to a table without measures
C28_WitnessAppended ==
    /\ edits.at = "added"
    /\ Len(edits.done) = 1
    /\ ~In("measures", EnvelopeTable(edits.before[1]))
    /\ Len(MeasureList(edits.table_tmsl)) = 1


\* C29: a table TMSL that the workflow reports safe is valid for
\* validate_tmsl_structure, and it has no table-level mode or defaultMode.
C29_SafetyChecksAgree ==
    (WorkflowReturned /\ workflow.value.safe) =>
        /\ ~In("mode", EnvelopeTable(workflow.value.tmsl))
        /\ ~In("defaultMode", EnvelopeTable(workflow.value.tmsl))
        /\ pc = "returned" => (~result.raised /\ result.valid)

=============================================================================
